---- MODULE Spec2Model ----
(***************************************************************************)
(* Pushpin proxy: the worker supervisor (src/proxy/app.cpp), its per-worker *)
(* threads, the start barrier, the quit / routes-changed fan-out, and the   *)
(* deferred-call queue each thread's event loop drains (core/defercall.h).  *)
(***************************************************************************)
EXTENDS Integers, Sequences, FiniteSets, TLC

\* ------------------------------------------------------------------------
\* Bounds
\* ------------------------------------------------------------------------
MaxWorkers == 2
MaxChanges == 1
MaxConn == 3
MaxHups == 1
MaxArgs == 2
MaxSessions == 2
MaxReqs == 1
MaxReply == 2
MaxChecks == 2
MaxChunks == 3
MaxTicks == 3
MaxReports == 2
MaxXff == 3

Main == -1
Workers == 0 .. (MaxWorkers - 1)
Threads == {Main} \cup Workers

VARIABLES
    workerCount,  \* runLoop's workerCount argument
    spc,          \* where the supervisor (main) thread is
    ctx,          \* which loop over `threads` the supervisor is in
    n,            \* the start loop's index (app.cpp:719)
    idx,          \* position in `threads` of the loop the supervisor is in
    cur,          \* the EngineThread the supervisor is operating on
    threads,      \* std::list<EngineThread*> threads
    mtx,          \* EngineThread::m, per worker: "free", "sup" or "wrk"
    woken,        \* a wakeOne delivered to the waiter in start()
    worker,       \* EngineThread::worker: "none" (null), "alive", "dead" (reset)
    engine,       \* EngineWorker::engine_: "none", "created", "started", "reset"
    wpc,          \* where each worker thread is
    phase,        \* per thread event loop: "none", "drain", "poll"
    queue,        \* per thread: the deferred calls its manager holds, in order
    nseq,         \* per thread: calls deferred to it so far
    exitCode,     \* per thread loop: exit(code) requested, -1 when not
    sig,          \* per worker: outcome of its start attempt
    stopped,      \* workers whose EngineWorker emitted `stopped`
    startResult,  \* per worker: what EngineThread::start() returned
    stopPosted,   \* per worker: stop calls the supervisor deferred to it
    joined,       \* workers whose thread the supervisor has joined
    changes,      \* DomainMap::changed emissions handled so far
    rcCount,      \* per worker: Engine::routesChanged invocations
    rcBy,         \* per worker: threads that invoked Engine::routesChanged
    quitSeen,     \* the quit handler has run
    mainRet,      \* runLoop's return value, -1 until it returns
    cleaned,      \* runLoop called DeferCall::cleanup()
    crashed,      \* the process died of undefined behaviour
    lastRun,      \* per thread: the deferred call it ran last
    settings,     \* the configuration file's values App::Private::run reads
    config,       \* the Engine::Configuration run() hands to runLoop
    wconfigs,     \* the wconfig of each worker the start loop has built
    cpc,          \* where the configuration pass is
    cn,           \* the start loop's index in the configuration pass
    args,         \* the command line: its options in order
    routeLines,   \* ArgsData::routeLines as run() hands it to runLoop
    domainMap,    \* how runLoop's startup closure built the DomainMap
    budgets,      \* per worker: the budgets EngineThread::run computed
    pq,           \* ProcessQuit's handlers: "none", "installed", "removed"
    quitRuns,     \* times the quit handler has run
    sig2,         \* a SIGINT/SIGTERM after the first: "none", "killed", "ignored"
    rotations,    \* log_rotate() calls
    reloads,      \* DomainMap::reload() calls
    inflight,     \* per worker: the sessions its engine has in flight
    forced,       \* per worker: sessions destroyed with its engine
    creq,         \* per control request: the Deferred object and its members
    wire,         \* control requests whose RPC reply has not arrived yet
    touched,      \* a handler ran on a destroyed control request
    ureq,         \* Updater::Private::req: "none" (null) or "active"
    ubuf,         \* req->bytesAvailable()
    uchunks,      \* body chunks the request has received
    uchecks,      \* update checks started so far
    ulast,        \* how the last update check ended
    uticks,       \* timer expiries so far
    umode,        \* Updater::Private::mode: "check" or "report"
    report,       \* Updater::Private::report
    ucalls,       \* the setReport calls since the last request was issued
    uquery,       \* the report items of the last request's query
    uqcalls,      \* the setReport calls the last request was built from
    wmap,         \* per worker: the DomainMap its EngineThread was given
    mapReleased,  \* runLoop's domainMap has been destroyed
    xin,          \* the list parse_xffRule is given
    xout,         \* the XffRule parse_xffRule returns
    xdone         \* parse_xffRule has returned

\* The call of parse_xffRule.
xvars == <<xin, xout, xdone>>

cvars == <<settings, config, wconfigs, cpc, cn, args, routeLines, domainMap,
          budgets, xvars>>

\* The supervisor, its workers and their event loops.
svars == <<workerCount, spc, ctx, n, idx, cur, threads, mtx, woken, worker,
           engine, wpc, phase, queue, nseq, exitCode, sig, stopped,
           startResult, stopPosted, joined, changes, rcCount, rcBy, quitSeen,
           mainRet, cleaned, crashed, lastRun>>

\* Signal handling.
gvars == <<pq, quitRuns, sig2, rotations, reloads>>

\* The sessions of the workers' engines.
evars == <<inflight, forced>>

\* The handler's control requests (handler/controlrequest.cpp).
kvars == <<creq, wire, touched>>

\* The updater (Updater::Private).
uvars == <<ureq, ubuf, uchunks, uchecks, ulast, uticks, umode, report,
           ucalls, uquery, uqcalls>>

\* runLoop's DomainMap and the pointers to it.
dvars == <<wmap, mapReleased>>

\* What the supervisor and the configuration pass leave alone.
ovars == <<gvars, evars, kvars, uvars, dvars>>

vars == <<ovars, cvars, workerCount, spc, ctx, n, idx, cur, threads, mtx, woken, worker,
          engine, wpc, phase, queue, nseq, exitCode, sig, stopped,
          startResult, stopPosted, joined, changes, rcCount, rcBy, quitSeen,
          mainRet, cleaned, crashed, lastRun>>

\* ------------------------------------------------------------------------
\* Deferred calls (core/defercall.h)
\* ------------------------------------------------------------------------

\* DeferCall::Call: the handler, the DeferCall it was deferred through
\* (owner: the thread that constructed it), the thread that called defer(),
\* its position in the target's defer order, and when it was deferred
\* (dturn): 0 outside a drain of the target's loop, 1 during the drain of
\* the turn the loop is in; once the loop has polled with the call still
\* queued, 0 becomes 3 and 1 becomes 2.
NewCall(fn, owner, by, t) ==
    [fn |-> fn, owner |-> owner, by |-> by, seq |-> nseq[t] + 1,
     dturn |-> IF phase[t] = "drain" THEN 1 ELSE 0]

NoRun == [fn |-> "none", owner |-> Main, by |-> Main, seq |-> 0, dturn |-> 0,
          alive |-> TRUE, first |-> TRUE]

\* The thread whose manager a call deferred through `owner`'s DeferCall goes to.
DeferTargetCaller(owner, by) == by
DeferTarget(owner, by) == owner

\* defer(): append the call to the target thread's queue.
DeferOn(q, fn, owner, by) ==
    LET t == DeferTarget(owner, by)
    IN  [q EXCEPT ![t] = Append(@, NewCall(fn, owner, by, t))]

SeqOn(fn, owner, by) ==
    LET t == DeferTarget(owner, by)
    IN  [nseq EXCEPT ![t] = @ + 1]

\* The position of the call the drain runs next.
PickLast(q) == Len(q)
Pick(q) == 1

RemoveAt(q, i) == SubSeq(q, 1, i - 1) \o SubSeq(q, i + 1, Len(q))

\* ~DeferCall: the calls deferred through it are released with its list.
CancelNone(q, w) == q
CancelCalls(q, w) == SelectSeq(q, LAMBDA c : c.owner # w)

\* The drain of a turn is over.
DrainDoneBatch(t) ==
    \A i \in 1 .. Len(queue[t]) : queue[t][i].dturn = 1
DrainDone(t) == queue[t] = <<>>

\* The loop polls: every call still queued was left behind by the drain.
EndTurn(q) == [i \in 1 .. Len(q) |->
                 [q[i] EXCEPT !.dturn = IF @ = 1 THEN 2
                                        ELSE IF @ = 0 THEN 3 ELSE @]]

MinSeq(q) == CHOOSE s \in {q[i].seq : i \in 1 .. Len(q)} :
                 \A i \in 1 .. Len(q) : s <= q[i].seq

Pending(w) == Cardinality({<<t, i>> \in Threads \X (1 .. 8) :
                  i <= Len(queue[t]) /\ queue[t][i].owner = w})


\* ------------------------------------------------------------------------
\* Configuration: App::Private::run and the wconfig of each worker
\* ------------------------------------------------------------------------
\* Strings are sequences of characters.
Ipc == <<"i", "p", "c", ":">>
IpcA == Ipc \o <<"a">>
IpcB == Ipc \o <<"b">>
TcpA == <<"t", "c", "p", ":", "a">>
Empty == <<>>

Digits == <<"0", "1", "2", "3", "4", "5", "6", "7", "8", "9">>

\* QString::number / QString::arg of a non-negative int: its decimal digits.
RECURSIVE NumStr(_)
NumStr(i) == IF i < 10 THEN <<Digits[i + 1]>>
             ELSE NumStr(i \div 10) \o <<Digits[(i % 10) + 1]>>

\* QString::startsWith.
StartsWith(s, prefix) ==
    Len(s) >= Len(prefix) /\ SubSeq(s, 1, Len(prefix)) = prefix

\* trimlist (app.cpp:48-58): drop the empty entries.
trimlistNone(l) == l
trimlist(l) == SelectSeq(l, LAMBDA e : e # Empty)

\* s + QString("-%1").arg(i)
WithSuffix(s, i) == s \o <<"-">> \o NumStr(i)

\* suffixSpec (app.cpp:80-86)
suffixSpecAlways(s, i) == WithSuffix(s, i)
suffixSpec(s, i) == IF StartsWith(s, Ipc) THEN WithSuffix(s, i) ELSE s

\* suffixSpecs (app.cpp:88-94)
suffixSpecs(l, i) ==
    IF Len(l) = 1 /\ StartsWith(l[1], Ipc) THEN <<WithSuffix(l[1], i)>> ELSE l

\* C++ int division: the quotient is truncated toward zero.
FloorDiv(a, b) == a \div b
TruncDiv(a, b) ==
    LET abs(x) == IF x < 0 THEN -x ELSE x
        q == abs(a) \div abs(b)
    IN  IF (a < 0) # (b < 0) THEN -q ELSE q

qMin(a, b) == IF b < a THEN b ELSE a

\* sessionsMax should not exceed clientMaxconn (app.cpp:574-578).
SessionsTotalUnclamped(maxOpen, clientMaxconn) ==
    IF maxOpen >= 0 THEN maxOpen ELSE clientMaxconn
SessionsTotal(maxOpen, clientMaxconn) ==
    IF maxOpen >= 0 THEN qMin(maxOpen, clientMaxconn) ELSE clientMaxconn

SingleSpecs == {IpcA, TcpA, Empty}
ListSpecs == {<<>>, <<IpcA>>, <<TcpA>>, <<IpcA, IpcB>>, <<IpcA, TcpA>>,
              <<Empty, IpcA>>}
Pids == {7, 10}

\* int: 32 bits, two's complement.
IntMax == 2147483647
IntMin == -IntMax - 1
Half == 65536

\* Tuning constants of the engine; their definitions are not part of the
\* sources at hand.
TIMERS_PER_SESSION == 10
TIMERS_PER_ZROUTE == 10
ZROUTES_MAX == 100
SOCKETNOTIFIERS_PER_ZROUTE == 5
SOCKETNOTIFIERS_PER_SIMPLEHTTPREQUEST == 1
PROMETHEUS_CONNECTIONS_MAX == 16

\* a * b lies within int, for 0 < b.
MulFits(a, b) ==
    IF a >= 0 THEN a <= IntMax \div b
    ELSE \/ (-a) <= IntMax \div b
         \/ (-(a + 1)) = IntMax \div b /\ IntMax % b = b - 1

\* a + b lies within int, for 0 <= b.
AddFits(a, b) == a <= IntMax - b

\* The 32-bit pattern, as an int, of a * b for 0 <= a and 0 < b < 2^15.
MulWrap(a, b) ==
    LET lo == (a % Half) * b
        hi == ((a \div Half) * b + lo \div Half) % Half
    IN  (IF hi >= Half \div 2 THEN hi - Half ELSE hi) * Half + (lo % Half)

\* The 32-bit pattern, as an int, of a + b for 0 <= b.
AddWrap(a, b) ==
    IF AddFits(a, b) THEN a + b ELSE ((a - IntMax) + (b - 1)) + IntMin

\* a * b as the build computes it: signed overflow is undefined, so that
\* the process is killed or some value, here the wrapped one, results.
MulOutcomes(a, b) ==
    IF MulFits(a, b) THEN {[crash |-> FALSE, val |-> a * b]}
    ELSE {[crash |-> TRUE, val |-> 0], [crash |-> FALSE, val |-> MulWrap(a, b)]}

AddOutcomes(a, b) ==
    IF AddFits(a, b) THEN {[crash |-> FALSE, val |-> a + b]}
    ELSE {[crash |-> TRUE, val |-> 0], [crash |-> FALSE, val |-> AddWrap(a, b)]}

\* The parts of the budgets that do not depend on the configuration
\* (app.cpp:312, 322).
TimersFixed == ZROUTES_MAX * TIMERS_PER_ZROUTE + 100
SocketNotifiersMax ==
    SOCKETNOTIFIERS_PER_ZROUTE * ZROUTES_MAX
        + SOCKETNOTIFIERS_PER_SIMPLEHTTPREQUEST * PROMETHEUS_CONNECTIONS_MAX + 100

\* EngineThread::run: timersMax and, with the new event loop,
\* registrationsMax (app.cpp:311-325). regs is 0 with the Qt event loop.
Budget(sm, newLoop, crash, timers, regs) ==
    [sessionsMax |-> sm, newLoop |-> newLoop, crash |-> crash,
     timers |-> timers, regs |-> regs]

BudgetOutcomes(sm, newLoop) ==
    LET died == Budget(sm, newLoop, TRUE, 0, 0)
        withRegs(t) ==
            IF ~newLoop THEN {Budget(sm, newLoop, FALSE, t, 0)}
            ELSE {IF r.crash THEN died ELSE Budget(sm, newLoop, FALSE, t, r.val) :
                      r \in AddOutcomes(t, SocketNotifiersMax)}
        withTimers(m) ==
            UNION {IF t.crash THEN {died} ELSE withRegs(t.val) :
                       t \in AddOutcomes(m, TimersFixed)}
    IN  UNION {IF m.crash THEN {died} ELSE withTimers(m.val) :
                   m \in MulOutcomes(sm, TIMERS_PER_SESSION)}

\* The largest sessionsMax whose budgets lie within int.
MaxFit == (IntMax - TimersFixed - SocketNotifiersMax) \div TIMERS_PER_SESSION

BigConns == {50000, MaxFit, MaxFit + 1, IntMax}

\* The endpoint lists of one side (app.cpp:460-501): the connmgr lists, their
\* condure aliases, and the m2a lists on the server side or the zurl lists
\* on the client side, each as <<first, second, third>> in the order in
\* which the validation names them.
NoLists == <<<<>>, <<>>, <<>>>>
SetLists == <<<<TcpA>>, <<TcpA>>, <<TcpA>>>>

MkSide(connmgr, condure, other) ==
    [connmgr |-> connmgr, condure |-> condure, other |-> other]

DefaultSide == MkSide(SetLists, NoLists, NoLists)

FirstLists == {<<>>, <<Empty>>, <<TcpA>>}
RestLists == {<<>>, <<TcpA>>}
Triples == {<<a, b, c>> : a \in FirstLists, b \in RestLists, c \in RestLists}
Sides == {MkSide(x, y, z) : x \in Triples, y \in Triples, z \in Triples}

\* The values run() reads from the configuration file (app.cpp:457-548).
MkSettings(wk, mo, cm, a, b, l1, l2, pid) ==
    [server |-> DefaultSide, client |-> DefaultSide, new_event_loop |-> TRUE,
     services |-> {},
     workers |-> wk, max_open_requests |-> mo, client_maxconn |-> cm,
     handler_inspect_spec |-> a, handler_accept_spec |-> b,
     handler_retry_in_spec |-> a,
     handler_ws_control_init_specs |-> l1,
     handler_ws_control_stream_specs |-> l2,
     stats_spec |-> b, command_spec |-> a,
     intreq_in_specs |-> l1, intreq_in_stream_specs |-> l2,
     intreq_out_specs |-> l1, pid |-> pid]

NoSettings == MkSettings(1, -1, 0, Empty, Empty, <<>>, <<>>, 7)

DefaultSettings == MkSettings(1, -1, MaxConn, IpcA, TcpA, <<IpcA>>, <<>>, 7)

\* Either the endpoint specs vary, or the session limits do, or the endpoint
\* lists of one side do.
SettingsSet ==
    {[DefaultSettings EXCEPT !.server = x] : x \in Sides}
    \cup
    {[DefaultSettings EXCEPT !.client = x] : x \in Sides}
    \cup
    {[DefaultSettings EXCEPT !.server = x, !.services = {"mongrel2"}] :
        x \in Sides}
    \cup
    {[DefaultSettings EXCEPT !.client = x, !.services = {"zurl"}] :
        x \in Sides}
    \cup
    {[DefaultSettings EXCEPT !.workers = wk, !.client_maxconn = cm,
                             !.max_open_requests = mo, !.new_event_loop = nl] :
        wk \in 1 .. MaxWorkers, cm \in BigConns, mo \in {-1, 50000},
        nl \in BOOLEAN}
    \cup
    {MkSettings(wk, -1, MaxConn, a, b, l1, l2, pid) :
        wk \in 0 .. MaxWorkers, a \in SingleSpecs, b \in SingleSpecs,
        l1 \in ListSpecs, l2 \in ListSpecs, pid \in Pids}
    \cup
    {MkSettings(wk, mo, cm, IpcA, TcpA, <<IpcA>>, <<>>, 7) :
        wk \in 0 .. MaxWorkers, mo \in -1 .. MaxConn,
        cm \in (-MaxConn) .. MaxConn}

\* A list setting as run() holds it: read, trimmed, and for a connmgr list
\* with its condure alias appended (app.cpp:460-501).
Merged(side, i) == trimlist(side.connmgr[i]) \o trimlist(side.condure[i])

Other(side, i) == trimlist(side.other[i])

\* The triple run() hands to the engine for one side (app.cpp:583-606):
\* the connmgr lists unless the runner starts `svc` or all three are empty,
\* the m2a / zurl lists otherwise.
PickSide(side, svc, services) ==
    IF svc \notin services
          /\ (Merged(side, 1) # <<>> \/ Merged(side, 2) # <<>>
                 \/ Merged(side, 3) # <<>>)
    THEN <<Merged(side, 1), Merged(side, 2), Merged(side, 3)>>
    ELSE <<Other(side, 1), Other(side, 2), Other(side, 3)>>

\* Engine::Configuration as run() fills it (app.cpp:580-643); sm is the
\* value of sessionsMax / workerCount.
MkConfig(s, sm) ==
    [id |-> 0,
     clientId |-> <<"p", "r", "o", "x", "y", "_">> \o NumStr(s.pid),
     serverInSpecs |-> PickSide(s.server, "mongrel2", s.services)[1],
     serverInStreamSpecs |-> PickSide(s.server, "mongrel2", s.services)[2],
     serverOutSpecs |-> PickSide(s.server, "mongrel2", s.services)[3],
     clientOutSpecs |-> PickSide(s.client, "zurl", s.services)[1],
     clientOutStreamSpecs |-> PickSide(s.client, "zurl", s.services)[2],
     clientInSpecs |-> PickSide(s.client, "zurl", s.services)[3],
     inspectSpec |-> s.handler_inspect_spec,
     acceptSpec |-> s.handler_accept_spec,
     retryInSpec |-> s.handler_retry_in_spec,
     wsControlInitSpecs |-> trimlist(s.handler_ws_control_init_specs),
     wsControlStreamSpecs |-> trimlist(s.handler_ws_control_stream_specs),
     statsSpec |-> s.stats_spec,
     commandSpec |-> s.command_spec,
     intServerInSpecs |-> trimlist(s.intreq_in_specs),
     intServerInStreamSpecs |-> trimlist(s.intreq_in_stream_specs),
     intServerOutSpecs |-> trimlist(s.intreq_out_specs),
     sessionsMax |-> sm]

NoConfig == MkConfig(NoSettings, 0)

\* The wconfig of worker i of wk (app.cpp:721-739).
WConfigSameClient(c, i, wk) == [c EXCEPT !.id = i]
WConfigAlways(c, i, wk) ==
    [c EXCEPT !.id = i,
              !.clientId = @ \o <<"-">> \o NumStr(i),
              !.inspectSpec = suffixSpec(@, i)]
WConfig(c, i, wk) ==
    IF wk > 1
    THEN [c EXCEPT
            !.id = i,
            !.clientId = @ \o <<"-">> \o NumStr(i),
            !.inspectSpec = suffixSpec(@, i),
            !.acceptSpec = suffixSpec(@, i),
            !.retryInSpec = suffixSpec(@, i),
            !.wsControlInitSpecs = suffixSpecs(@, i),
            !.wsControlStreamSpecs = suffixSpecs(@, i),
            !.statsSpec = suffixSpec(@, i),
            !.commandSpec = suffixSpec(@, i),
            !.intServerInSpecs = suffixSpecs(@, i),
            !.intServerInStreamSpecs = suffixSpecs(@, i),
            !.intServerOutSpecs = suffixSpecs(@, i)]
    ELSE [c EXCEPT !.id = i]

\* The condition under which run() logs "must set ..." and returns 1
\* (app.cpp:559 for the server side, 565 for the client side).
SideMissing(side) ==
    /\ ~(Merged(side, 1) # <<>> /\ Merged(side, 2) # <<>> /\ Merged(side, 3) # <<>>)
    /\ ~(Other(side, 1) # <<>> /\ Other(side, 2) # <<>> /\ Other(side, 3) # <<>>)

\* Command-line options: <<name, value>>.
Options == {<<"route", "r1">>, <<"route", "r2">>, <<"quiet-check", "">>}

RECURSIVE SeqsUpTo(_, _)
SeqsUpTo(S, k) ==
    IF k = 0 THEN {<<>>}
    ELSE LET shorter == SeqsUpTo(S, k - 1)
         IN  shorter \cup {Append(q, x) : q \in shorter, x \in S}

ArgsSet == SeqsUpTo(Options, MaxArgs)

\* parseCommandLine (app.cpp:178-182): the values of the --route options,
\* in command-line order.
RECURSIVE RouteValues(_)
RouteValues(a) ==
    IF a = <<>> THEN <<>>
    ELSE IF Head(a)[1] = "route"
         THEN <<Head(a)[2]>> \o RouteValues(Tail(a))
         ELSE RouteValues(Tail(a))

\* A DomainMap as its constructor and the addRouteLine calls leave it.
NoMap == [ctor |-> "none", lines |-> <<>>]
NewMap == [ctor |-> "lines", lines |-> <<>>]
FileMap == [ctor |-> "file", lines |-> <<>>]

addRouteLineFront(m, line) == [m EXCEPT !.lines = <<line>> \o @]
addRouteLine(m, line) == [m EXCEPT !.lines = Append(@, line)]

\* foreach(line, routeLines) domainMap->addRouteLine(line) (app.cpp:680-681)
RECURSIVE AddRouteLines(_, _)
AddRouteLines(m, lines) ==
    IF lines = <<>> THEN m
    ELSE AddRouteLines(addRouteLine(m, Head(lines)), Tail(lines))

\* The head of runLoop's startup closure (app.cpp:677-684).
BuildMap(lines) ==
    IF lines # <<>> THEN AddRouteLines(NewMap, lines) ELSE FileMap

\* What `sessionsMax / workerCount` (app.cpp:618) can evaluate to. Division
\* by zero is undefined: the process is killed, or some value results.
DivOutcomes(total, wk) ==
    IF wk = 0
    THEN {[crash |-> TRUE, val |-> 0]} \cup
         {[crash |-> FALSE, val |-> v] : v \in {-1, 0, 1}}
    ELSE {[crash |-> FALSE, val |-> TruncDiv(total, wk)]}

\* ------------------------------------------------------------------------
\* Initial state: runLoop has deferred its startup closure (app.cpp:676)
\* and entered loop->exec() (app.cpp:765-769).
\* ------------------------------------------------------------------------
SupInit ==
    /\ workerCount \in 1 .. MaxWorkers
    /\ spc = "loop"
    /\ ctx = "none"
    /\ n = 0
    /\ idx = 1
    /\ cur = 0
    /\ threads = <<>>
    /\ mtx = [w \in Workers |-> "free"]
    /\ woken = [w \in Workers |-> FALSE]
    /\ worker = [w \in Workers |-> "none"]
    /\ engine = [w \in Workers |-> "none"]
    /\ wpc = [w \in Workers |-> "unborn"]
    /\ phase = [t \in Threads |-> IF t = Main THEN "drain" ELSE "none"]
    /\ queue = [t \in Threads |->
                  IF t = Main
                  THEN <<[fn |-> "startup", owner |-> Main, by |-> Main,
                          seq |-> 1, dturn |-> 0]>>
                  ELSE <<>>]
    /\ nseq = [t \in Threads |-> IF t = Main THEN 1 ELSE 0]
    /\ exitCode = [t \in Threads |-> -1]
    /\ sig = [w \in Workers |-> "none"]
    /\ stopped = {}
    /\ startResult = [w \in Workers |-> "none"]
    /\ stopPosted = [w \in Workers |-> 0]
    /\ joined = {}
    /\ changes = 0
    /\ rcCount = [w \in Workers |-> 0]
    /\ rcBy = [w \in Workers |-> {}]
    /\ quitSeen = FALSE
    /\ mainRet = -1
    /\ cleaned = FALSE
    /\ crashed = FALSE
    /\ lastRun = [t \in Threads |-> NoRun]

\* ------------------------------------------------------------------------
\* Control requests (handler/controlrequest.cpp)
\* ------------------------------------------------------------------------
ReqIds == 1 .. MaxReqs
Cids == {"a", "b"}
Kinds == {"connCheck", "refresh", "report"}

\* ZrpcRequest::ErrorCondition values.
Conds == {"Timeout", "TransportError"}

\* QVariant values a Deferred can finish with.
NoValue == [t |-> "invalid", s |-> "", ids |-> {}]
CondValue(c) == [t |-> "cond", s |-> c, ids |-> {}]
StringValue(c) == [t |-> "string", s |-> c, ids |-> {}]
CidSetValue(S) == [t |-> "cidset", s |-> "", ids |-> S]

\* QString::toUtf8 / QString::fromUtf8 on a client id.
toUtf8(cid) == [t |-> "bytes", b |-> cid]
fromUtf8(e) == e.b

\* ZrpcRequest::errorCondition() and errorConditionString() of a failed
\* request: the enum value, and its text.
errorCondition(reply) == CondValue(reply.cond)
errorConditionString(reply) == StringValue(reply.cond)

\* The elements and the results an RPC reply can carry.
Elems == {toUtf8(c) : c \in Cids} \cup {[t |-> "int", b |-> ""]}
ElemSeqs == UNION {[1 .. k -> Elems] : k \in 0 .. MaxReply}
Results == {[t |-> "list", items |-> l] : l \in ElemSeqs}
               \cup {[t |-> "hash", items |-> <<>>]}
NoResult == [t |-> "invalid", items |-> <<>>]
NoReply == [got |-> FALSE, ok |-> FALSE, result |-> NoResult, cond |-> ""]
Replies == {[got |-> TRUE, ok |-> TRUE, result |-> r, cond |-> ""] :
                r \in Results}
               \cup {[got |-> TRUE, ok |-> FALSE, result |-> NoResult,
                      cond |-> c] : c \in Conds}

\* Deferred::setFinished(success, value): the finished notification.
setFinished(success, value) == [success |-> success, value |-> value]

\* The method each request passes to ZrpcRequest::start.
MethodSame(kind) == "conncheck"
Method(kind) ==
    CASE kind = "connCheck" -> "conncheck"
      [] kind = "refresh" -> "refresh"
      [] kind = "report" -> "report"

\* The ids argument ConnCheck's constructor builds from cids.
Vcids(cids) == {toUtf8(c) : c \in cids}

\* The byte-array elements of a result list that precede its first element
\* of another type.
GoodPrefix(items) ==
    {fromUtf8(items[k]) : k \in {j \in 1 .. Len(items) :
                                    \A h \in 1 .. j : items[h].t = "bytes"}}

ConnCheckPartial(reply) ==
    IF reply.ok
    THEN IF reply.result.t # "list"
         THEN setFinished(FALSE, NoValue)
         ELSE setFinished(TRUE, CidSetValue(GoodPrefix(reply.result.items)))
    ELSE setFinished(FALSE, errorCondition(reply))

\* ConnCheck::req_finished (controlrequest.cpp:54-85).
ConnCheckFinished(reply) ==
    IF reply.ok
    THEN IF reply.result.t # "list"
         THEN setFinished(FALSE, NoValue)
         ELSE IF \E k \in 1 .. Len(reply.result.items) :
                     reply.result.items[k].t # "bytes"
              THEN setFinished(FALSE, NoValue)
              ELSE setFinished(TRUE,
                       CidSetValue({fromUtf8(reply.result.items[k]) :
                                       k \in 1 .. Len(reply.result.items)}))
    ELSE setFinished(FALSE, errorCondition(reply))

\* Refresh::req_finished (controlrequest.cpp:105-111).
RefreshFinished(reply) ==
    IF reply.ok
    THEN setFinished(TRUE, NoValue)
    ELSE setFinished(FALSE, errorConditionString(reply))

\* Report::req_finished (controlrequest.cpp:131-137).
ReportFinished(reply) ==
    IF reply.ok
    THEN setFinished(TRUE, NoValue)
    ELSE setFinished(FALSE, errorCondition(reply))

req_finished(kind, reply) ==
    CASE kind = "connCheck" -> ConnCheckFinished(reply)
      [] kind = "refresh" -> RefreshFinished(reply)
      [] kind = "report" -> ReportFinished(reply)

\* A control request: its class, the cids it was given, the calls of
\* ZrpcRequest::start it made, whether its req member holds a ZrpcRequest,
\* whether its finishedConnection is connected, the reply its ZrpcRequest
\* holds, and the finished notifications it emitted.
NoReq == [kind |-> "none", st |-> "none", cids |-> {}, rpcs |-> <<>>,
          req |-> FALSE, conn |-> FALSE, reply |-> NoReply, fin |-> <<>>]

\* The constructors (controlrequest.cpp:36-48, 91-99, 117-125).
Created(kind, cids) ==
    [kind |-> kind, st |-> "pending", cids |-> cids,
     rpcs |-> <<[method |-> Method(kind),
                 ids |-> IF kind = "report" THEN {} ELSE Vcids(cids)]>>,
     req |-> TRUE, conn |-> TRUE, reply |-> NoReply, fin |-> <<>>]

\* The implicit destructors: finishedConnection (declared last) disconnects,
\* then the unique_ptr req deletes the ZrpcRequest.
DestroyedLeak(r) == [r EXCEPT !.st = "destroyed"]
Destroyed(r) == [r EXCEPT !.st = "destroyed", !.conn = FALSE, !.req = FALSE]

\* The cids each entry point accepts: a set, one cid, a stats packet.
CidInputs(kind) ==
    CASE kind = "connCheck" -> SUBSET Cids
      [] kind = "refresh" -> {{c} : c \in Cids}
      [] kind = "report" -> {{}}

CtlIdle ==
    /\ creq = [i \in ReqIds |-> NoReq]
    /\ wire = {}
    /\ touched = FALSE

\* ControlRequest::connCheck / refresh / report (controlrequest.cpp:140-153).
CtlCreate(i, kind, cids) ==
    /\ creq[i].kind = "none"
    /\ \A j \in ReqIds : j < i => creq[j].kind # "none"
    /\ creq' = [creq EXCEPT ![i] = Created(kind, cids)]
    /\ wire' = wire \cup {i}
    /\ UNCHANGED <<touched, gvars, evars, uvars, dvars, cvars,
                   svars>>

\* The reply (or the failure) of request i's RPC arrives. A ZrpcRequest that
\* still exists takes it and emits finished; a connected slot then runs.
CtlReply(i, reply) ==
    /\ i \in wire
    /\ wire' = wire \ {i}
    /\ IF ~creq[i].req
       THEN UNCHANGED <<creq, touched>>
       ELSE IF ~creq[i].conn
       THEN /\ creq' = [creq EXCEPT ![i].reply = reply]
            /\ UNCHANGED touched
       ELSE IF creq[i].st = "destroyed"
       THEN /\ touched' = TRUE
            /\ UNCHANGED creq
       ELSE /\ creq' = [creq EXCEPT
                           ![i].reply = reply,
                           ![i].st = "finished",
                           ![i].fin = Append(@, req_finished(creq[i].kind,
                                                             reply))]
            /\ UNCHANGED touched
    /\ UNCHANGED <<gvars, evars, uvars, dvars, cvars,
                   svars>>

\* The owner deletes the Deferred.
CtlDestroy(i) ==
    /\ creq[i].st \in {"pending", "finished"}
    /\ creq' = [creq EXCEPT ![i] = Destroyed(creq[i])]
    /\ UNCHANGED <<wire, touched, gvars, evars, uvars, dvars, cvars,
                   svars>>

\* ------------------------------------------------------------------------
\* The updater (Updater::Private)
\* ------------------------------------------------------------------------
MAX_RESPONSE_SIZE == 50000

ChunkSizes == {0, 1, MAX_RESPONSE_SIZE - 1, MAX_RESPONSE_SIZE}
Codes == {200, 404}

\* What a finished 200 response carries: a JSON object, JSON of another
\* kind, or bytes that are not JSON.
Bodies == {"object", "array", "garbage"}

NoCheck == [size |-> 0, fin |-> FALSE, code |-> 0, outcome |-> "none",
            body |-> "none", check |-> 0]

\* Updater::Report, and the reports setReport is given.
StaleReport ==
    [connectionsMax |-> -1, connectionsMinutes |-> 0, messagesReceived |-> 0,
     messagesSent |-> 0, ops |-> 0]
MkReport(cmax, cmin, recv) ==
    [connectionsMax |-> cmax, connectionsMinutes |-> cmin,
     messagesReceived |-> recv, messagesSent |-> cmin, ops |-> recv + 1]
Reports == {MkReport(-1, 0, 0), MkReport(0, 1, 2), MkReport(3, 2, 0)}

\* The report items of the query doRequest builds (part_002:146-151).
NoQuery == [cmax |-> <<>>, cminutes |-> <<>>, recv |-> <<>>, sent |-> <<>>,
            ops |-> <<>>]
Query(r) ==
    [cmax |-> NumStr(IF r.connectionsMax > 0 THEN r.connectionsMax ELSE 0),
     cminutes |-> NumStr(r.connectionsMinutes),
     recv |-> NumStr(r.messagesReceived),
     sent |-> NumStr(r.messagesSent),
     ops |-> NumStr(r.ops)]

\* doRequest's reset of the report (part_002:153-157).
ResetReportKeep(r) == r
ResetReport(r) == StaleReport

\* Updater::setReport (part_002:252-263).
setReport(acc, r) ==
    [connectionsMax |->
         IF acc.connectionsMax = -1 \/ r.connectionsMax > acc.connectionsMax
         THEN r.connectionsMax ELSE acc.connectionsMax,
     connectionsMinutes |-> acc.connectionsMinutes + r.connectionsMinutes,
     messagesReceived |-> acc.messagesReceived + r.messagesReceived,
     messagesSent |-> acc.messagesSent + r.messagesSent,
     ops |-> acc.ops + r.ops]

\* req_readyRead's first test.
TooLargeGe(bytes) == bytes >= MAX_RESPONSE_SIZE
TooLarge(bytes) == bytes > MAX_RESPONSE_SIZE

\* req_readyRead with `bytes` buffered, the response finished or not, and
\* its code: "wait" when it returns with the request kept.
req_readyRead(bytes, finished, code) ==
    IF TooLarge(bytes) THEN "toolarge"
    ELSE IF ~finished THEN "wait"
    ELSE IF code # 200 THEN "badcode"
    ELSE "parsed"

\* The ends of req_readyRead that call cleanupRequest (part_002:176, 186,
\* 194).
CleansUpParsedOnly(o) == o = "parsed"
CleansUp(o) == o \in {"toolarge", "badcode", "parsed"}

\* What req_readyRead makes of the body it read, after the request is
\* released (part_002:196-204).
parseBody(o, body) ==
    IF o # "parsed" THEN "none"
    ELSE IF body = "object" THEN "finished"
    ELSE "badformat"

\* timer_timeout's test (part_002:237).
TimerStartsAlways(r) == TRUE
TimerStarts(r) == r = "none"

\* The report accounting: the accumulators, the setReport calls since the
\* last request was issued, the query of the last request and the calls it
\* was built from.
rvars == <<report, ucalls, uquery, uqcalls>>

\* Updater::Private::Private (part_002:91-105) in mode m.
UpdStart(m) ==
    /\ ureq = "none"
    /\ ubuf = 0
    /\ uchunks = 0
    /\ uchecks = 0
    /\ uticks = 0
    /\ ulast = NoCheck
    /\ umode = m
    /\ report = StaleReport
    /\ ucalls = <<>>
    /\ uquery = NoQuery
    /\ uqcalls = <<>>

UpdIdle == UpdStart("check")

\* timer_timeout and doRequest.
UpdTimeout ==
    /\ uchecks < MaxChecks
    /\ uticks < MaxTicks
    /\ uticks' = uticks + 1
    /\ IF TimerStarts(ureq)
       THEN /\ ureq' = "active"
            /\ ubuf' = 0
            /\ uchunks' = 0
            /\ uchecks' = uchecks + 1
            /\ IF umode = "report"
               THEN /\ uquery' = Query(report)
                    /\ uqcalls' = ucalls
                    /\ report' = ResetReport(report)
                    /\ ucalls' = <<>>
               ELSE UNCHANGED rvars
       ELSE UNCHANGED <<ureq, ubuf, uchunks, uchecks, rvars>>
    /\ UNCHANGED <<ulast, umode, gvars, evars, kvars, dvars, cvars, svars>>

\* Updater::setReport.
UpdReport(r) ==
    /\ Len(ucalls) < MaxReports
    /\ report' = setReport(report, r)
    /\ ucalls' = Append(ucalls, r)
    /\ UNCHANGED <<ureq, ubuf, uchunks, uchecks, uticks, ulast, umode, uquery,
                   uqcalls, gvars, evars, kvars, dvars, cvars, svars>>

\* A chunk of the response arrives and readyRead runs req_readyRead.
UpdData(sz, finished, code, body) ==
    /\ ureq = "active"
    /\ uchunks < MaxChunks
    /\ LET bytes == ubuf + sz
           o == req_readyRead(bytes, finished, code)
       IN /\ IF o = "wait"
             THEN UNCHANGED ulast
             ELSE ulast' = [size |-> bytes, fin |-> finished, code |-> code,
                            outcome |-> o, body |-> parseBody(o, body),
                            check |-> uchecks]
          /\ IF CleansUp(o)
             THEN /\ ureq' = "none"
                  /\ ubuf' = 0
                  /\ uchunks' = 0
             ELSE /\ ubuf' = bytes
                  /\ uchunks' = uchunks + 1
                  /\ UNCHANGED ureq
    /\ UNCHANGED <<uchecks, uticks, umode, rvars, gvars, evars, kvars, dvars,
                   cvars, svars>>

\* req_error.
UpdError ==
    /\ ureq = "active"
    /\ ureq' = "none"
    /\ ulast' = [size |-> ubuf, fin |-> FALSE, code |-> 0,
                 outcome |-> "error", body |-> "none", check |-> uchecks]
    /\ ubuf' = 0
    /\ uchunks' = 0
    /\ UNCHANGED <<uchecks, uticks, umode, rvars, gvars, evars, kvars, dvars,
                   cvars, svars>>

\* ------------------------------------------------------------------------
\* The X-Forwarded-For rules (parse_xffRule, app.cpp:60-78)
\* ------------------------------------------------------------------------
TruncateStr == <<"t", "r", "u", "n", "c", "a", "t", "e", ":">>
AppendStr == <<"a", "p", "p", "e", "n", "d">>

\* XffRule as constructed.
XffRuleDefault == [truncate |-> -1, append |-> FALSE]

\* QString::mid(pos): the characters from position pos (counted from 0) on.
mid(s, pos) == SubSeq(s, pos + 1, Len(s))

DigitVal(ch) == CHOOSE d \in 0 .. 9 : Digits[d + 1] = ch
IsDigit(ch) == \E d \in 0 .. 9 : Digits[d + 1] = ch

\* m * 10 + d is at most (IntMax \div 10) * 10 + last.
DigitFits(m, d, last) ==
    m < IntMax \div 10 \/ (m = IntMax \div 10 /\ d <= last)

\* The value of a string of digits, and -1 when it exceeds int.
RECURSIVE DigitsVal(_)
DigitsVal(s) ==
    IF s = <<>> THEN 0
    ELSE LET m == DigitsVal(SubSeq(s, 1, Len(s) - 1))
             d == DigitVal(s[Len(s)])
         IN  IF m = -1 \/ ~DigitFits(m, d, IntMax % 10) THEN -1
             ELSE m * 10 + d

\* QString::toInt(&ok) in base 10, of a string without white space: an
\* optional sign and at least one digit, the value within int; otherwise
\* ok is false and the value 0.
toInt(s) ==
    LET signed == s # <<>> /\ Head(s) \in {"-", "+"}
        neg == s # <<>> /\ Head(s) = "-"
        body == IF signed THEN Tail(s) ELSE s
        bad == [ok |-> FALSE, val |-> 0]
    IN  IF body = <<>> \/ \E k \in 1 .. Len(body) : ~IsDigit(body[k])
        THEN bad
        ELSE LET m == DigitsVal(SubSeq(body, 1, Len(body) - 1))
                 d == DigitVal(body[Len(body)])
                 last == (IntMax % 10) + (IF neg THEN 1 ELSE 0)
             IN  IF m = -1 \/ ~DigitFits(m, d, last) THEN bad
                 ELSE [ok |-> TRUE,
                       val |-> IF neg THEN -(m * 10) - d ELSE m * 10 + d]

\* What is left of the list after a truncate: entry whose number toInt
\* rejects: nothing, parse_xffRule returns (app.cpp:69-70).
AfterBadSkip(rest) == rest
AfterBad(rest) == <<>>

\* The foreach of parse_xffRule over what is left of the list, with `out`
\* as set so far (app.cpp:63-76).
RECURSIVE xffLoop(_, _)
xffLoop(in, out) ==
    IF in = <<>> THEN out
    ELSE LET s == Head(in) IN
         IF StartsWith(s, TruncateStr)
         THEN LET x == toInt(mid(s, 9)) IN
              IF ~x.ok THEN xffLoop(AfterBad(Tail(in)), out)
              ELSE xffLoop(Tail(in), [out EXCEPT !.truncate = x.val])
         ELSE IF s = AppendStr
         THEN xffLoop(Tail(in), [out EXCEPT !.append = TRUE])
         ELSE xffLoop(Tail(in), out)

parse_xffRule(in) == xffLoop(in, XffRuleDefault)

\* The entries the lists are built of.
XffEntries ==
    {AppendStr,
     TruncateStr \o NumStr(1),
     TruncateStr \o NumStr(2),
     TruncateStr \o <<"-">> \o NumStr(1),
     TruncateStr \o NumStr(IntMax),
     TruncateStr \o NumStr(IntMax \div 10) \o <<"8">>,
     TruncateStr \o <<"x">>,
     TruncateStr,
     AppendStr \o <<"s">>,
     SubSeq(TruncateStr, 1, 8)}

RECURSIVE ListsUpTo(_, _)
ListsUpTo(S, k) ==
    IF k = 0 THEN {<<>>}
    ELSE LET L == ListsUpTo(S, k - 1)
         IN  L \cup {Append(l, e) : l \in L, e \in S}

XffLists == ListsUpTo(XffEntries, MaxXff)

XffIdle ==
    /\ xin = <<>>
    /\ xout = XffRuleDefault
    /\ xdone = FALSE

\* run() reads proxy/x_forwarded_for or proxy/x_forwarded_for_trusted and
\* parses it (app.cpp:527-528).
XffParse ==
    /\ ~xdone
    /\ xout' = parse_xffRule(xin)
    /\ xdone' = TRUE
    /\ UNCHANGED <<xin, settings, config, wconfigs, cpc, cn, args, routeLines,
                   domainMap, budgets, svars, ovars>>

\* The supervisor's specification starts from a configuration already read.
CfgIdle ==
    /\ budgets = <<>>
    /\ args = <<>>
    /\ routeLines = <<>>
    /\ domainMap = NoMap
    /\ settings = NoSettings
    /\ config = NoConfig
    /\ wconfigs = <<>>
    /\ cpc = "idle"
    /\ cn = 0

\* No signal handler is connected before the startup closure has run.
SigIdle ==
    /\ pq = "none"
    /\ quitRuns = 0
    /\ sig2 = "none"
    /\ rotations = 0
    /\ reloads = 0
    /\ inflight = [w \in Workers |-> 0]
    /\ forced = [w \in Workers |-> 0]
    /\ wmap = [w \in Workers |-> 0]
    /\ mapReleased = FALSE

Init == SupInit /\ CfgIdle /\ XffIdle /\ SigIdle /\ CtlIdle /\ UpdIdle

\* The process has neither died of undefined behaviour nor been killed by a
\* signal.
Running == ~crashed /\ sig2 # "killed"

\* The thread is inside its event loop and not inside a handler.
InLoop(t) == Running /\ (IF t = Main THEN spc = "loop" ELSE wpc[t] = "loop")

\* ------------------------------------------------------------------------
\* The event loop of a thread
\* ------------------------------------------------------------------------

\* The drain runs one deferred call. The handlers are the closures of
\* app.cpp: runLoop's startup closure (676-763, up to the start loop: it
\* builds the domain map, 677-684, and connects the changed, quit and hup
\* handlers, 686-717),
\* worker->start() (369, 205-216 with the started / error handlers 337-343
\* and 356-367), worker->stop() (286-289, 218-223 with the stopped handler
\* 345-354) and worker->routesChanged() (299-302, 225-229). A handler whose
\* EngineWorker is gone dereferences a null pointer. Destroying the engine
\* (engine_.reset(), app.cpp:209, 220) destroys the sessions it has in
\* flight.
RunCall(t) ==
    /\ InLoop(t)
    /\ phase[t] = "drain"
    /\ queue[t] # <<>>
    /\ \E ok \in BOOLEAN :
         LET i == Pick(queue[t])
             c == queue[t][i]
             w == c.owner
             rest == RemoveAt(queue[t], i)
             kind == IF c.fn = "startup" THEN "startup"
                     ELSE IF worker[w] # "alive" THEN "crash"
                     ELSE IF c.fn = "start"
                          THEN (IF ok THEN "started" ELSE "error")
                     ELSE c.fn
             destroys == kind \in {"error", "stop"}
             wakes == kind \in {"started", "error"}
         IN  /\ lastRun' = [lastRun EXCEPT ![t] =
                    [fn |-> c.fn, owner |-> c.owner, by |-> c.by,
                     seq |-> c.seq, dturn |-> c.dturn,
                     alive |-> (kind # "crash"),
                     first |-> (c.seq = MinSeq(queue[t]))]]
             /\ queue' = [u \in Threads |->
                    LET q == IF u = t THEN rest ELSE queue[u]
                    IN  IF destroys THEN CancelCalls(q, w) ELSE q]
             /\ worker' = IF destroys THEN [worker EXCEPT ![w] = "dead"]
                          ELSE worker
             /\ engine' = IF kind = "started"
                          THEN [engine EXCEPT ![w] = "started"]
                          ELSE IF destroys THEN [engine EXCEPT ![w] = "reset"]
                          ELSE engine
             /\ sig' = IF wakes THEN [sig EXCEPT ![w] = kind] ELSE sig
             /\ stopped' = IF kind = "stop" THEN stopped \cup {w} ELSE stopped
             /\ exitCode' = IF destroys THEN [exitCode EXCEPT ![w] = 0]
                            ELSE exitCode
             /\ woken' = IF wakes
                         THEN [woken EXCEPT ![w] = (spc = "startWait" /\ n = w)]
                         ELSE woken
             /\ mtx' = IF wakes THEN [mtx EXCEPT ![w] = "free"] ELSE mtx
             /\ rcCount' = IF kind = "rc" /\ engine[w] \in {"created", "started"}
                           THEN [rcCount EXCEPT ![w] = @ + 1] ELSE rcCount
             /\ rcBy' = IF kind = "rc" /\ engine[w] \in {"created", "started"}
                        THEN [rcBy EXCEPT ![w] = @ \cup {t}] ELSE rcBy
             /\ spc' = IF kind = "startup" THEN "spawn" ELSE spc
             /\ n' = IF kind = "startup" THEN 0 ELSE n
             /\ crashed' = (kind = "crash")
             /\ pq' = IF kind = "startup" THEN "installed" ELSE pq
             /\ domainMap' = IF kind = "startup" THEN BuildMap(routeLines)
                             ELSE domainMap
             /\ inflight' = IF destroys THEN [inflight EXCEPT ![w] = 0]
                            ELSE inflight
             /\ forced' = IF destroys THEN [forced EXCEPT ![w] = inflight[w]]
                          ELSE forced
    /\ UNCHANGED <<dvars, kvars, uvars, quitRuns, sig2, rotations, reloads>>
    /\ UNCHANGED <<settings, config, wconfigs, cpc, cn, args, routeLines,
                   budgets, xvars>>
    /\ UNCHANGED <<workerCount, ctx, idx, cur, threads, wpc, phase, nseq,
                   startResult, stopPosted, joined, changes, quitSeen,
                   mainRet, cleaned>>

\* The queue is drained: the loop blocks polling for I/O.
LoopPoll(t) ==
    /\ InLoop(t)
    /\ phase[t] = "drain"
    /\ exitCode[t] = -1
    /\ DrainDone(t)
    /\ phase' = [phase EXCEPT ![t] = "poll"]
    /\ queue' = [queue EXCEPT ![t] = EndTurn(@)]
    /\ UNCHANGED <<ovars, cvars, workerCount, spc, ctx, n, idx, cur, threads, mtx, woken,
                   worker, engine, wpc, nseq, exitCode, sig,
                   stopped, startResult, stopPosted, joined, changes, rcCount,
                   rcBy, quitSeen, mainRet, cleaned, crashed, lastRun>>

\* A deferred call wakes the polling loop: the next turn begins.
LoopWake(t) ==
    /\ InLoop(t)
    /\ phase[t] = "poll"
    /\ exitCode[t] = -1
    /\ queue[t] # <<>>
    /\ phase' = [phase EXCEPT ![t] = "drain"]
    /\ UNCHANGED <<ovars, cvars, workerCount, spc, ctx, n, idx, cur, threads, mtx, woken,
                   worker, engine, wpc, queue, nseq, exitCode, sig,
                   stopped, startResult, stopPosted, joined, changes, rcCount,
                   rcBy, quitSeen, mainRet, cleaned, crashed, lastRun>>


\* The loop returns from exec() once exit() was requested. A worker thread
\* then leaves run() (app.cpp:376-388); the main thread goes on to its
\* cleanup (app.cpp:771-779).
LoopReturn(t) ==
    /\ InLoop(t)
    /\ exitCode[t] >= 0
    /\ phase' = [phase EXCEPT ![t] = "none"]
    /\ IF t = Main
       THEN spc' = "cleanup" /\ wpc' = wpc
       ELSE wpc' = [wpc EXCEPT ![t] = "done"] /\ spc' = spc
    /\ UNCHANGED <<ovars, cvars, workerCount, ctx, n, idx, cur, threads, mtx, woken,
                   worker, engine, queue, nseq, exitCode, sig,
                   stopped, startResult, stopPosted, joined, changes, rcCount,
                   rcBy, quitSeen, mainRet, cleaned, crashed, lastRun>>

\* ------------------------------------------------------------------------
\* Worker thread: EngineThread::run up to exec() (app.cpp:306-374)
\* ------------------------------------------------------------------------
WorkerRun(w) ==
    /\ Running
    /\ wpc[w] = "lock"
    /\ mtx[w] = "free"
    /\ mtx' = [mtx EXCEPT ![w] = "wrk"]
    /\ worker' = [worker EXCEPT ![w] = "alive"]
    /\ engine' = [engine EXCEPT ![w] = "created"]
    /\ queue' = DeferOn(queue, "start", w, w)
    /\ nseq' = SeqOn("start", w, w)
    /\ wpc' = [wpc EXCEPT ![w] = "loop"]
    /\ phase' = [phase EXCEPT ![w] = "drain"]
    /\ UNCHANGED <<ovars, cvars, workerCount, spc, ctx, n, idx, cur, threads, woken,
                   exitCode, sig, stopped, startResult, stopPosted, joined,
                   changes, rcCount, rcBy, quitSeen, mainRet, cleaned,
                   crashed, lastRun>>

\* ------------------------------------------------------------------------
\* Supervisor: the start loop of runLoop's startup closure (app.cpp:719-762)
\* ------------------------------------------------------------------------

\* Who holds m while start() spawns the thread: QMutexLocker locker(&m)
\* (app.cpp:264).
\* domainMap.get() (app.cpp:741): 0 is the null pointer, 1 the DomainMap the
\* startup closure constructed.
MapPtr == IF domainMap.ctor = "none" THEN 0 ELSE 1

SpawnLockNone == "free"
SpawnLock == "sup"

\* Loop head; new EngineThread and the first half of EngineThread::start():
\* lock m and spawn the thread (app.cpp:741, 260-274). After the last worker
\* the closure returns to the drain that ran it.
SupSpawn ==
    /\ Running
    /\ spc = "spawn"
    /\ IF n < workerCount
       THEN /\ mtx' = [mtx EXCEPT ![n] = SpawnLock]
            /\ wpc' = [wpc EXCEPT ![n] = "lock"]
            /\ wmap' = [wmap EXCEPT ![n] = MapPtr]
            /\ spc' = "startSpawned"
       ELSE /\ spc' = "loop"
            /\ UNCHANGED <<mtx, wpc, wmap>>
    /\ UNCHANGED <<gvars, evars, kvars, uvars, mapReleased, cvars, workerCount, ctx, n, idx, cur, threads, woken, worker,
                   engine, phase, queue, nseq, exitCode, sig, stopped,
                   startResult, stopPosted, joined, changes, rcCount, rcBy,
                   quitSeen, mainRet, cleaned, crashed, lastRun>>

\* w.wait(&m): release m and block (app.cpp:276).
SupStartWait ==
    /\ Running
    /\ spc = "startSpawned"
    /\ mtx' = [mtx EXCEPT ![n] = "free"]
    /\ spc' = "startWait"
    /\ UNCHANGED <<ovars, cvars, workerCount, ctx, n, idx, cur, threads, woken, worker,
                   engine, wpc, phase, queue, nseq, exitCode, sig,
                   stopped, startResult, stopPosted, joined, changes, rcCount,
                   rcBy, quitSeen, mainRet, cleaned, crashed, lastRun>>

\* wait() returns only to a wakeOne.
StartMayReturnNoWait(w) == TRUE
StartMayReturn(w) == woken[w]

\* The value start() returns: (bool)worker (app.cpp:277).
StartValueTrue(w) == TRUE
StartValue(w) == worker[w] = "alive"

\* wait() reacquires m and start() returns; the start loop then keeps the
\* thread (app.cpp:759) or takes the failure path (app.cpp:742-757), which
\* begins with deleting the thread that failed.
SupStartReturn ==
    /\ Running
    /\ spc = "startWait"
    /\ StartMayReturn(n)
    /\ mtx[n] = "free"
    /\ woken' = [woken EXCEPT ![n] = FALSE]
    /\ startResult' = [startResult EXCEPT ![n] =
                          IF StartValue(n) THEN "true" ELSE "false"]
    /\ IF StartValue(n)
       THEN /\ threads' = Append(threads, n)
            /\ n' = n + 1
            /\ spc' = "spawn"
            /\ UNCHANGED <<ctx, cur>>
       ELSE /\ ctx' = "failNew"
            /\ cur' = n
            /\ spc' = "stop.chk"
            /\ UNCHANGED <<threads, n>>
    /\ UNCHANGED <<ovars, cvars, workerCount, idx, mtx, worker, engine, wpc, phase,
                   queue, nseq, exitCode, sig, stopped, stopPosted, joined,
                   changes, rcCount, rcBy, quitSeen, mainRet, cleaned,
                   crashed, lastRun>>


\* ------------------------------------------------------------------------
\* Supervisor: EngineThread::stop, ::routesChanged, ~EngineThread and the
\* loops over `threads` that call them
\* ------------------------------------------------------------------------

\* Exit codes of the main loop (app.cpp:707-710 and 751-754).
QuitExitCode == 0
FailExitCode == 1

\* worker->deferCall.defer(...) by the supervisor (app.cpp:286, 299). The
\* worker thread resets `worker` without holding m (app.cpp:346), so the
\* EngineWorker the supervisor has just tested may be gone: the defer then
\* uses a freed DeferCall, which either kills the process or leaves no call.
PostOutcomes(w) == IF worker[w] = "alive" THEN {"ok"} ELSE {"crash", "lost"}

Post(fn, out) ==
    /\ queue' = IF out = "ok" THEN DeferOn(queue, fn, cur, Main) ELSE queue
    /\ nseq' = IF out = "ok" THEN SeqOn(fn, cur, Main) ELSE nseq
    /\ crashed' = (out = "crash")

\* What follows a stop() that has returned: the quit handler's first loop
\* goes on to the next thread (app.cpp:697-698); a destructor joins
\* (app.cpp:254-258).
AfterStopPc == IF ctx = "quitStop" THEN "head" ELSE "join"
AfterStopIdx == IF ctx = "quitStop" THEN idx + 1 ELSE idx

\* EngineThread::stop(): lock m and test worker (app.cpp:280-284).
SupStopChk ==
    /\ Running
    /\ spc = "stop.chk"
    /\ mtx[cur] = "free"
    /\ IF worker[cur] = "alive"
       THEN /\ mtx' = [mtx EXCEPT ![cur] = "sup"]
            /\ spc' = "stop.def"
            /\ idx' = idx
       ELSE /\ mtx' = mtx
            /\ spc' = AfterStopPc
            /\ idx' = AfterStopIdx
    /\ UNCHANGED <<ovars, cvars, workerCount, ctx, n, cur, threads, woken, worker, engine,
                   wpc, phase, queue, nseq, exitCode, sig, stopped,
                   startResult, stopPosted, joined, changes, rcCount, rcBy,
                   quitSeen, mainRet, cleaned, crashed, lastRun>>

\* EngineThread::stop(): defer worker->stop() and unlock (app.cpp:286-291).
SupStopDef ==
    /\ Running
    /\ spc = "stop.def"
    /\ \E out \in PostOutcomes(cur) :
         /\ Post("stop", out)
         /\ stopPosted' = IF out = "ok"
                          THEN [stopPosted EXCEPT ![cur] = @ + 1]
                          ELSE stopPosted
    /\ mtx' = [mtx EXCEPT ![cur] = "free"]
    /\ spc' = AfterStopPc
    /\ idx' = AfterStopIdx
    /\ UNCHANGED <<ovars, cvars, workerCount, ctx, n, cur, threads, woken, worker, engine,
                   wpc, phase, exitCode, sig, stopped, startResult,
                   joined, changes, rcCount, rcBy, quitSeen, mainRet,
                   cleaned, lastRun>>

\* ~EngineThread: thread.join() (app.cpp:257). After the thread that failed
\* to start, the failure path deletes the threads started before it
\* (app.cpp:746-747).
SupJoin ==
    /\ Running
    /\ spc = "join"
    /\ wpc[cur] = "done"
    /\ joined' = joined \cup {cur}
    /\ spc' = "head"
    /\ IF ctx = "failNew"
       THEN ctx' = "failDel" /\ idx' = 1
       ELSE ctx' = ctx /\ idx' = idx + 1
    /\ UNCHANGED <<ovars, cvars, workerCount, n, cur, threads, mtx, woken, worker, engine,
                   wpc, phase, queue, nseq, exitCode, sig, stopped,
                   startResult, stopPosted, changes, rcCount, rcBy, quitSeen,
                   mainRet, cleaned, crashed, lastRun>>

\* EngineThread::routesChanged(): lock m and test worker (app.cpp:293-297).
SupRcChk ==
    /\ Running
    /\ spc = "rc.chk"
    /\ mtx[cur] = "free"
    /\ IF worker[cur] = "alive"
       THEN /\ mtx' = [mtx EXCEPT ![cur] = "sup"]
            /\ spc' = "rc.def"
            /\ idx' = idx
       ELSE /\ mtx' = mtx
            /\ spc' = "head"
            /\ idx' = idx + 1
    /\ UNCHANGED <<ovars, cvars, workerCount, ctx, n, cur, threads, woken, worker, engine,
                   wpc, phase, queue, nseq, exitCode, sig, stopped,
                   startResult, stopPosted, joined, changes, rcCount, rcBy,
                   quitSeen, mainRet, cleaned, crashed, lastRun>>

\* EngineThread::routesChanged() calling worker->routesChanged() itself.
SupRcDirect ==
    /\ Running
    /\ spc = "rc.def"
    /\ rcCount' = [rcCount EXCEPT ![cur] = @ + 1]
    /\ rcBy' = [rcBy EXCEPT ![cur] = @ \cup {Main}]
    /\ mtx' = [mtx EXCEPT ![cur] = "free"]
    /\ spc' = "head"
    /\ idx' = idx + 1
    /\ UNCHANGED <<ovars, cvars, workerCount, ctx, n, cur, threads, woken, worker, engine,
                   wpc, phase, queue, nseq, exitCode, sig, stopped,
                   startResult, stopPosted, joined, changes, quitSeen,
                   mainRet, cleaned, crashed, lastRun>>

\* EngineThread::routesChanged(): defer worker->routesChanged() and unlock
\* (app.cpp:299-304).
SupRcDef ==
    /\ Running
    /\ spc = "rc.def"
    /\ \E out \in PostOutcomes(cur) : Post("rc", out)
    /\ mtx' = [mtx EXCEPT ![cur] = "free"]
    /\ spc' = "head"
    /\ idx' = idx + 1
    /\ UNCHANGED <<ovars, cvars, workerCount, ctx, n, cur, threads, woken, worker, engine,
                   wpc, phase, exitCode, sig, stopped, startResult,
                   stopPosted, joined, changes, rcCount, rcBy, quitSeen,
                   mainRet, cleaned, lastRun>>


\* The first thread a loop over `threads` visits (app.cpp:687, 697, 700, 746).
FirstNone(l) == Len(l) + 1
First(l) == 1

\* The loop the quit handler runs first (app.cpp:697-698).
QuitFirstLoopSkipped == "quitDel"
QuitFirstLoop == "quitStop"

\* Head of a loop over `threads`, and what follows the loop: the changed
\* handler returns (app.cpp:686-689); the quit handler goes from its stop
\* loop to its delete loop and then clears the list and exits the main loop
\* (app.cpp:697-710); the failure path clears the list, exits the main loop
\* and returns from the startup closure (app.cpp:746-756). A handler fired
\* by the poll ends the turn.
SupHead ==
    /\ Running
    /\ spc = "head"
    /\ LET more == idx <= Len(threads)
           ends == ~more /\ ctx \in {"quitDel", "failDel"}
           back == ~more /\ ctx \in {"quitDel", "changed"}
       IN  /\ cur' = IF more THEN threads[idx] ELSE cur
           /\ spc' = IF more
                     THEN (IF ctx = "changed" THEN "rc.chk" ELSE "stop.chk")
                     ELSE IF ctx = "quitStop" THEN "head" ELSE "loop"
           /\ ctx' = IF ~more /\ ctx = "quitStop" THEN "quitDel" ELSE ctx
           /\ idx' = IF ~more /\ ctx = "quitStop" THEN First(threads) ELSE idx
           /\ threads' = IF ends THEN <<>> ELSE threads
           /\ exitCode' = IF ends
                          THEN [exitCode EXCEPT ![Main] =
                                  IF ctx = "quitDel" THEN QuitExitCode
                                  ELSE FailExitCode]
                          ELSE exitCode
           /\ phase' = IF back THEN [phase EXCEPT ![Main] = "drain"] ELSE phase
    /\ UNCHANGED <<ovars, cvars, workerCount, n, mtx, woken, worker, engine, wpc, queue,
                   nseq, sig, stopped, startResult, stopPosted, joined,
                   changes, rcCount, rcBy, quitSeen, mainRet, cleaned,
                   crashed, lastRun>>

\* The main loop is polling and may fire an event handler.
MainPolling == Running /\ spc = "loop" /\ phase[Main] = "poll" /\ exitCode[Main] = -1

\* What ProcessQuit::cleanup() (app.cpp:695) leaves of the handlers.
QuitCleanupKept == "installed"
QuitCleanup == "removed"

\* ProcessQuit's quit signal: the quit handler begins (app.cpp:691-698). It
\* first removes ProcessQuit's handlers (app.cpp:694-695).
QuitSignal ==
    /\ MainPolling
    /\ pq = "installed"
    /\ quitSeen' = TRUE
    /\ quitRuns' = quitRuns + 1
    /\ pq' = QuitCleanup
    /\ ctx' = QuitFirstLoop
    /\ idx' = First(threads)
    /\ spc' = "head"
    /\ UNCHANGED <<dvars, kvars, uvars, sig2, rotations, reloads, evars>>
    /\ UNCHANGED <<cvars, workerCount, n, cur, threads, mtx, woken, worker, engine,
                   wpc, phase, queue, nseq, exitCode, sig, stopped,
                   startResult, stopPosted, joined, changes, rcCount, rcBy,
                   mainRet, cleaned, crashed, lastRun>>

\* DomainMap::changed: the changed handler begins (app.cpp:686-689).
ChangedSignal ==
    /\ MainPolling
    /\ changes < MaxChanges
    /\ changes' = changes + 1
    /\ ctx' = "changed"
    /\ idx' = First(threads)
    /\ spc' = "head"
    /\ UNCHANGED <<ovars, cvars, workerCount, n, cur, threads, mtx, woken, worker, engine,
                   wpc, phase, queue, nseq, exitCode, sig, stopped,
                   startResult, stopPosted, joined, quitSeen, rcCount, rcBy,
                   mainRet, cleaned, crashed, lastRun>>

\* After exec() returned: DeferCall::cleanup() and return ret
\* (app.cpp:779-784). The return destroys runLoop's locals, the domainMap
\* (app.cpp:672) among them.
MainCleanup ==
    /\ Running
    /\ spc = "cleanup"
    /\ cleaned' = TRUE
    /\ queue' = [queue EXCEPT ![Main] = <<>>]
    /\ mainRet' = exitCode[Main]
    /\ mapReleased' = TRUE
    /\ spc' = "returned"
    /\ UNCHANGED <<gvars, evars, kvars, uvars, wmap, cvars, workerCount, ctx, n, idx, cur, threads, mtx, woken, worker,
                   engine, wpc, phase, nseq, exitCode, sig, stopped,
                   startResult, stopPosted, joined, changes, rcCount, rcBy,
                   quitSeen, crashed, lastRun>>

\* The worker's loop polls and an I/O handler of its engine runs: a session
\* begins, or one in flight ends. A handler fired by the poll ends the turn.
SessionOpen(w) ==
    /\ InLoop(w)
    /\ phase[w] = "poll"
    /\ exitCode[w] = -1
    /\ engine[w] = "started"
    /\ inflight[w] < MaxSessions
    /\ inflight' = [inflight EXCEPT ![w] = @ + 1]
    /\ phase' = [phase EXCEPT ![w] = "drain"]
    /\ UNCHANGED <<dvars, kvars, uvars, forced, gvars, cvars,
                   workerCount, spc, ctx, n, idx, cur,
                   threads, mtx, woken, worker, engine, wpc, queue, nseq,
                   exitCode, sig, stopped, startResult, stopPosted, joined,
                   changes, rcCount, rcBy, quitSeen, mainRet, cleaned,
                   crashed, lastRun>>

SessionClose(w) ==
    /\ InLoop(w)
    /\ phase[w] = "poll"
    /\ exitCode[w] = -1
    /\ engine[w] = "started"
    /\ inflight[w] > 0
    /\ inflight' = [inflight EXCEPT ![w] = @ - 1]
    /\ phase' = [phase EXCEPT ![w] = "drain"]
    /\ UNCHANGED <<dvars, kvars, uvars, forced, gvars, cvars,
                   workerCount, spc, ctx, n, idx, cur,
                   threads, mtx, woken, worker, engine, wpc, queue, nseq,
                   exitCode, sig, stopped, startResult, stopPosted, joined,
                   changes, rcCount, rcBy, quitSeen, mainRet, cleaned,
                   crashed, lastRun>>

\* A further SIGINT or SIGTERM once the quit handler has begun. With
\* ProcessQuit's handlers removed the signal has its default disposition and
\* kills the process; with a handler still installed it does not.
SecondSignal ==
    /\ Running
    /\ quitSeen
    /\ sig2 = "none"
    /\ spc # "returned"
    /\ sig2' = IF pq = "removed" THEN "killed" ELSE "ignored"
    /\ UNCHANGED <<dvars, kvars, uvars, pq, quitRuns, rotations, reloads, evars,
                   cvars, svars>>

\* A hup handler that also asks the main loop to exit.
HupSignalExits ==
    /\ MainPolling
    /\ pq = "installed"
    /\ reloads < MaxHups
    /\ rotations' = rotations + 1
    /\ reloads' = reloads + 1
    /\ exitCode' = [exitCode EXCEPT ![Main] = 0]
    /\ phase' = [phase EXCEPT ![Main] = "drain"]
    /\ UNCHANGED <<dvars, kvars, uvars, pq, quitRuns, sig2, evars, cvars,
                   workerCount, spc, ctx, n, idx, cur,
                   threads, mtx, woken, worker, engine, wpc, queue, nseq,
                   sig, stopped, startResult, stopPosted, joined,
                   changes, rcCount, rcBy, quitSeen, mainRet, cleaned,
                   crashed, lastRun>>

\* SIGHUP: the hup handler (app.cpp:713-717) rotates the log and reloads
\* the domain map. A handler fired by the poll ends the turn.
HupSignal ==
    /\ MainPolling
    /\ pq = "installed"
    /\ reloads < MaxHups
    /\ rotations' = rotations + 1
    /\ reloads' = reloads + 1
    /\ phase' = [phase EXCEPT ![Main] = "drain"]
    /\ UNCHANGED <<dvars, kvars, uvars, pq, quitRuns, sig2, evars, cvars,
                   workerCount, spc, ctx, n, idx, cur,
                   threads, mtx, woken, worker, engine, wpc, queue, nseq,
                   exitCode, sig, stopped, startResult, stopPosted, joined,
                   changes, rcCount, rcBy, quitSeen, mainRet, cleaned,
                   crashed, lastRun>>

Next ==
    \/ \E t \in Threads : RunCall(t)
    \/ \E t \in Threads : LoopPoll(t)
    \/ \E t \in Threads : LoopWake(t)
    \/ \E t \in Threads : LoopReturn(t)
    \/ \E w \in Workers : WorkerRun(w)
    \/ SupSpawn
    \/ SupStartWait
    \/ SupStartReturn
    \/ SupStopChk
    \/ SupStopDef
    \/ SupJoin
    \/ SupRcChk
    \/ SupRcDef
    \/ SupHead
    \/ QuitSignal
    \/ ChangedSignal
    \/ MainCleanup

Spec == Init /\ [][Next]_vars

\* Every thread that can take a step eventually takes it: the supervisor
\* thread and each worker thread are scheduled by the operating system.
\* Signals and domain map changes are not owed.
Fairness ==
    /\ \A t \in Threads : WF_vars(RunCall(t))
    /\ \A t \in Threads : WF_vars(LoopPoll(t))
    /\ \A t \in Threads : WF_vars(LoopWake(t))
    /\ \A t \in Threads : WF_vars(LoopReturn(t))
    /\ \A w \in Workers : WF_vars(WorkerRun(w))
    /\ WF_vars(SupSpawn)
    /\ WF_vars(SupStartWait)
    /\ WF_vars(SupStartReturn)
    /\ WF_vars(SupStopChk)
    /\ WF_vars(SupStopDef)
    /\ WF_vars(SupJoin)
    /\ WF_vars(SupRcChk)
    /\ WF_vars(SupRcDef)
    /\ WF_vars(SupHead)
    /\ WF_vars(MainCleanup)


\* The supervisor with SIGHUP and repeated SIGINT / SIGTERM delivered.
NextSig ==
    \/ \E t \in Threads : RunCall(t)
    \/ \E t \in Threads : LoopPoll(t)
    \/ \E t \in Threads : LoopWake(t)
    \/ \E t \in Threads : LoopReturn(t)
    \/ \E w \in Workers : WorkerRun(w)
    \/ SupSpawn
    \/ SupStartWait
    \/ SupStartReturn
    \/ SupStopChk
    \/ SupStopDef
    \/ SupJoin
    \/ SupRcChk
    \/ SupRcDef
    \/ SupHead
    \/ QuitSignal
    \/ ChangedSignal
    \/ MainCleanup
    \/ SecondSignal
    \/ HupSignal

\* The supervisor of one worker whose engine serves sessions.
NextStop ==
    \/ \E t \in Threads : RunCall(t)
    \/ \E t \in Threads : LoopPoll(t)
    \/ \E t \in Threads : LoopWake(t)
    \/ \E t \in Threads : LoopReturn(t)
    \/ \E w \in Workers : WorkerRun(w)
    \/ SupSpawn
    \/ SupStartWait
    \/ SupStartReturn
    \/ SupStopChk
    \/ SupStopDef
    \/ SupJoin
    \/ SupRcChk
    \/ SupRcDef
    \/ SupHead
    \/ QuitSignal
    \/ ChangedSignal
    \/ MainCleanup
    \/ \E w \in Workers : SessionOpen(w)
    \/ \E w \in Workers : SessionClose(w)

InitStop == Init /\ workerCount = 1

SpecStop == InitStop /\ [][NextStop]_vars

\* Signals are delivered to a supervisor of at most two workers.
SigWorkers == IF MaxWorkers > 2 THEN 2 ELSE MaxWorkers

InitSig == Init /\ workerCount <= SigWorkers

SpecSig == InitSig /\ [][NextSig]_vars

\* The supervisor of at most two workers, fairly scheduled.
SpecFair == InitSig /\ [][Next]_vars /\ Fairness


\* The handler's control requests on their own.
NextCtl ==
    \/ \E i \in ReqIds, kind \in Kinds :
           \E cids \in CidInputs(kind) : CtlCreate(i, kind, cids)
    \/ \E i \in ReqIds, reply \in Replies : CtlReply(i, reply)
    \/ \E i \in ReqIds : CtlDestroy(i)

InitCtl == Init /\ workerCount = 1

SpecCtl == InitCtl /\ [][NextCtl]_vars

\* The updater on its own.
NextUpd ==
    \/ UpdTimeout
    \/ \E sz \in ChunkSizes, finished \in BOOLEAN, code \in Codes,
          body \in Bodies :
           UpdData(sz, finished, code, body)
    \/ UpdError

InitUpd == Init /\ workerCount = 1

SpecUpd == InitUpd /\ [][NextUpd]_vars

\* The updater in report mode: setReport calls between its requests.
NextRep ==
    \/ UpdTimeout
    \/ \E r \in Reports : UpdReport(r)
    \/ \E code \in Codes : UpdData(0, TRUE, code, "object")
    \/ UpdError

InitRep ==
    /\ SupInit /\ workerCount = 1
    /\ CfgIdle /\ XffIdle /\ SigIdle /\ CtlIdle
    /\ \E m \in {"check", "report"} : UpdStart(m)

SpecRep == InitRep /\ [][NextRep]_vars


\* ------------------------------------------------------------------------
\* The configuration pass
\* ------------------------------------------------------------------------
InitCfg ==
    /\ SupInit
    /\ workerCount = 1
    /\ \/ settings \in SettingsSet /\ args = <<>>
       \/ settings = DefaultSettings /\ args \in ArgsSet
    /\ routeLines = <<>>
    /\ domainMap = NoMap
    /\ budgets = <<>>
    /\ config = NoConfig
    /\ wconfigs = <<>>
    /\ cpc = "run"
    /\ cn = 0
    /\ XffIdle
    /\ SigIdle
    /\ CtlIdle
    /\ UpdIdle

\* App::Private::run up to the call of runLoop (app.cpp:394-645).
CfgRun ==
    /\ cpc = "run"
    /\ routeLines' = RouteValues(args)
    /\ IF SideMissing(settings.server) \/ SideMissing(settings.client)
       THEN cpc' = "ret1" /\ config' = config
       ELSE \E out \in DivOutcomes(SessionsTotal(settings.max_open_requests,
                                                 settings.client_maxconn),
                                   settings.workers) :
              IF out.crash
              THEN cpc' = "crashed" /\ config' = config
              ELSE cpc' = "startup" /\ config' = MkConfig(settings, out.val)
    /\ UNCHANGED <<xvars, settings, wconfigs, cn, args, domainMap, budgets,
                   svars, ovars>>

\* runLoop's startup closure up to its start loop: the domain map
\* (app.cpp:676-684).
CfgStartup ==
    /\ cpc = "startup"
    /\ domainMap' = BuildMap(routeLines)
    /\ cpc' = "loop"
    /\ UNCHANGED <<xvars, settings, config, wconfigs, cn, args, routeLines, budgets,
                   svars, ovars>>

\* One pass of the start loop: the worker's wconfig (app.cpp:719-741).
CfgWorker ==
    /\ cpc = "loop"
    /\ cn < settings.workers
    /\ wconfigs' = Append(wconfigs, WConfig(config, cn, settings.workers))
    /\ cpc' = "thread"
    /\ UNCHANGED <<xvars, settings, config, cn, args, routeLines, domainMap, budgets,
                   svars, ovars>>

\* The worker's thread: EngineThread::run computes its budgets and creates
\* its event loop (app.cpp:306-333); the start loop then goes on
\* (app.cpp:742-760).
CfgThread ==
    /\ cpc = "thread"
    /\ \E b \in BudgetOutcomes(wconfigs[cn + 1].sessionsMax,
                                settings.new_event_loop) :
         /\ budgets' = Append(budgets, b)
         /\ cpc' = IF b.crash THEN "crashed" ELSE "loop"
    /\ cn' = cn + 1
    /\ UNCHANGED <<xvars, settings, config, wconfigs, args, routeLines, domainMap,
                   svars, ovars>>

\* The start loop ends (app.cpp:719, 762).
CfgDone ==
    /\ cpc = "loop"
    /\ cn >= settings.workers
    /\ cpc' = "done"
    /\ UNCHANGED <<xvars, settings, config, wconfigs, cn, args, routeLines, domainMap,
                   budgets, svars, ovars>>

NextCfg == CfgRun \/ CfgStartup \/ CfgWorker \/ CfgThread \/ CfgDone

SpecCfg == InitCfg /\ [][NextCfg]_vars

\* parse_xffRule on its own, over every list of up to MaxXff entries.
InitXff ==
    /\ SupInit /\ workerCount = 1
    /\ CfgIdle /\ SigIdle /\ CtlIdle /\ UpdIdle
    /\ xin \in XffLists
    /\ xout = XffRuleDefault
    /\ xdone = FALSE

NextXff == XffParse

SpecXff == InitXff /\ [][NextXff]_vars

\* ------------------------------------------------------------------------
\* Properties
\* ------------------------------------------------------------------------

Started == {w \in Workers : startResult[w] = "true"}

\* C1: EngineThread::start() returns only after the worker emitted `started`
\* or `error` for its start attempt; it returns true exactly when `started`
\* was emitted (the worker exists until a stop destroys it) and false
\* exactly when `error` was emitted (the worker is destroyed).
ClaimC1 ==
    \A w \in Workers :
        /\ startResult[w] # "none" => sig[w] # "none"
        /\ startResult[w] = "true" =>
               /\ sig[w] = "started"
               /\ (w \notin stopped => worker[w] = "alive")
        /\ startResult[w] = "false" =>
               /\ sig[w] = "error"
               /\ worker[w] = "dead"

WitnessC1 ==
    \E v, w \in Workers :
        /\ startResult[v] = "true" /\ worker[v] = "alive"
        /\ startResult[w] = "false"

\* C2: if worker k fails to start, no worker with a greater index is ever
\* spawned, and when runLoop has returned every worker started before k has
\* been stopped and its thread joined, the thread list is empty and the
\* main loop's exit code is 1.
ClaimC2 ==
    \A k \in Workers :
        sig[k] = "error" =>
            /\ \A j \in Workers : j > k => wpc[j] = "unborn"
            /\ ~crashed
            /\ exitCode[Main] \in {-1, 1}
            /\ spc = "returned" =>
                   /\ threads = <<>>
                   /\ mainRet = 1
                   /\ \A j \in 0 .. (k - 1) :
                          j \in stopped /\ j \in joined /\ wpc[j] = "done"

WitnessC2 ==
    /\ spc = "returned"
    /\ \E k \in Workers : k > 0 /\ sig[k] = "error" /\ 0 \in joined

\* C3: on a quit signal the supervisor has posted a stop call to every
\* worker before it joins any worker thread, has joined every worker thread
\* before it asks the main loop to exit, exits with code 0, and cleans up
\* its deferred calls only after the main loop has returned.
ClaimC3 ==
    quitSeen =>
        /\ (ctx = "quitDel" \/ joined # {}) =>
               \A w \in Started : stopPosted[w] >= 1
        /\ exitCode[Main] >= 0 =>
               /\ exitCode[Main] = 0
               /\ \A w \in Started : w \in joined /\ wpc[w] = "done"
        /\ cleaned => phase[Main] = "none" /\ mainRet = 0

WitnessC3 ==
    /\ quitSeen
    /\ cleaned
    /\ Cardinality(joined) >= 2

\* The worker's EngineThread has been passed by the changed handler's loop.
Reached(w) == \E i \in 1 .. Len(threads) : threads[i] = w /\ i < idx

InChanged == ctx = "changed" /\ spc # "loop"

PendingRc(w) == Cardinality({i \in 1 .. Len(queue[w]) :
                    queue[w][i].fn = "rc" /\ queue[w][i].owner = w})

\* C4: for every change the domain map signals while workers are running,
\* each worker has Engine::routesChanged invoked exactly once for it: once
\* the changed handler has passed a worker, the invocations made plus the
\* calls still queued on it equal the number of changes, no worker is
\* stopped with a change it has not seen, and the invocation is made by the
\* worker's own thread.
ClaimC4 ==
    \A w \in Workers :
        /\ rcBy[w] \subseteq {w}
        /\ rcCount[w] <= changes
        /\ w \in Started /\ worker[w] = "alive" =>
               rcCount[w] + PendingRc(w) =
                   IF InChanged /\ ~Reached(w) THEN changes - 1 ELSE changes
        /\ w \in stopped => rcCount[w] = changes

WitnessC4 ==
    /\ changes >= 1
    /\ \A w \in 0 .. 1 : rcCount[w] = changes /\ rcBy[w] = {w}

AllCalls(t) == {queue[t][i] : i \in 1 .. Len(queue[t])}

\* C5: the loop never polls with a deferred call left in its queue, and the
\* drain runs the calls in the order in which they were deferred.
ClaimC5 ==
    \A t \in Threads :
        /\ \A c \in AllCalls(t) : c.dturn \in {0, 1}
        /\ lastRun[t].dturn \in {0, 1}
        /\ lastRun[t].first

WitnessC5 ==
    \E w \in Workers :
        /\ phase[w] = "drain"
        /\ lastRun[w].fn = "start"
        /\ Len(queue[w]) >= 2

\* C6: a call deferred while the queue is being drained is run, if at all,
\* in that same turn: it is never still queued when the loop polls, it
\* stands behind every call that was queued when the drain began, and it
\* runs after them.
ClaimC6 ==
    \A t \in Threads :
        /\ \A c \in AllCalls(t) : c.dturn # 2
        /\ lastRun[t].dturn # 2
        /\ \A i, j \in 1 .. Len(queue[t]) :
               i < j /\ queue[t][j].dturn = 0 => queue[t][i].dturn = 0
        /\ lastRun[t].dturn = 1 => lastRun[t].first

WitnessC6 ==
    \E t \in Threads : lastRun[t].dturn = 1 /\ lastRun[t].fn = "stop"

\* C7: once a DeferCall is destroyed, no handler deferred through it and not
\* yet run is executed, and none counts as pending: a stop or routesChanged
\* call still queued when the worker is destroyed never runs.
ClaimC7 ==
    /\ \A w \in Workers : worker[w] = "dead" => Pending(w) = 0
    /\ \A t \in Threads : lastRun[t].alive

WitnessC7 ==
    \E w \in Workers :
        /\ worker[w] = "dead"
        /\ w \in stopped
        /\ stopPosted[w] = 2

\* C8: a handler deferred through a DeferCall is queued to and run by the
\* thread that owns the DeferCall, also when another thread called defer().
ClaimC8 ==
    \A t \in Threads :
        /\ \A c \in AllCalls(t) : c.owner = t
        /\ lastRun[t].fn # "none" => lastRun[t].owner = t

WitnessC8 ==
    \E w \in Workers :
        /\ lastRun[w].fn = "stop"
        /\ lastRun[w].by = Main
        /\ lastRun[w].owner = w


SingleFields == {"inspectSpec", "acceptSpec", "retryInSpec", "statsSpec",
                 "commandSpec"}
ListFields == {"wsControlInitSpecs", "wsControlStreamSpecs",
               "intServerInSpecs", "intServerInStreamSpecs",
               "intServerOutSpecs"}

\* The spec with "-n" appended, for a one-digit n.
Dashed(s, k) == s \o <<"-", Digits[k + 1]>>

RECURSIVE SumSessions(_)
SumSessions(l) == IF l = <<>> THEN 0
                  ELSE Head(l).sessionsMax + SumSessions(Tail(l))

\* total: min(max_open_requests, client_maxconn) when max_open_requests >= 0,
\* client_maxconn otherwise.
TotalOf(s) ==
    IF s.max_open_requests >= 0
    THEN (IF s.max_open_requests < s.client_maxconn
          THEN s.max_open_requests ELSE s.client_maxconn)
    ELSE s.client_maxconn

\* q is a / b with the quotient truncated toward zero, for b > 0.
IsTruncQuot(q, a, b) ==
    IF a >= 0 THEN q = a \div b ELSE q = -((-a) \div b)

\* C10 as stated: each worker's sessionsMax is total / workers, and so the
\* sum of all workers' sessionsMax never exceeds total and total never
\* exceeds client_maxconn, for every configured worker count.
OrigC10 ==
    /\ \A i \in 1 .. Len(wconfigs) :
           IsTruncQuot(wconfigs[i].sessionsMax, TotalOf(settings),
                       settings.workers)
    /\ TotalOf(settings) <= settings.client_maxconn
    /\ cpc = "done" => SumSessions(wconfigs) <= TotalOf(settings)

\* C10, amended: each worker's sessionsMax is total / workers with the
\* quotient truncated toward zero, total never exceeds client_maxconn, and
\* whenever total is not negative the sum of all workers' sessionsMax never
\* exceeds total.
ClaimC10 ==
    /\ \A i \in 1 .. Len(wconfigs) :
           IsTruncQuot(wconfigs[i].sessionsMax, TotalOf(settings),
                       settings.workers)
    /\ TotalOf(settings) <= settings.client_maxconn
    /\ cpc = "done" /\ TotalOf(settings) >= 0 =>
           SumSessions(wconfigs) <= TotalOf(settings)

WitnessC10 ==
    /\ cpc = "done"
    /\ Len(wconfigs) = 2
    /\ settings.max_open_requests > settings.client_maxconn
    /\ settings.client_maxconn = 1
    /\ wconfigs[1].sessionsMax = 0

\* C11: the ordered shutdown runs at most once: the quit handler has removed
\* ProcessQuit's handlers before it stops any worker, and a second SIGINT or
\* SIGTERM arriving during the shutdown kills the process, which then never
\* comes to return an exit code of its own, instead of running the quit
\* handler again.
ClaimC11 ==
    /\ quitRuns <= 1
    /\ quitSeen => quitRuns = 1 /\ pq = "removed"
    /\ sig2 # "none" =>
           /\ sig2 = "killed"
           /\ quitRuns = 1
           /\ mainRet = -1
           /\ ~cleaned

WitnessC11 ==
    /\ sig2 = "killed"
    /\ quitRuns = 1
    /\ \E w \in Workers : stopPosted[w] >= 1 /\ w \notin joined

\* A step in which the hup handler ran.
HupStep == rotations' # rotations \/ reloads' # reloads

HasEntry(l) == \E i \in 1 .. Len(l) : l[i] # Empty

AllSet(t) == HasEntry(t[1]) /\ HasEntry(t[2]) /\ HasEntry(t[3])

\* run() has returned 1 and no worker thread was created.
Refused == cpc = "ret1" /\ wconfigs = <<>>

\* C13 as stated: run returns 1 without creating any worker thread unless
\* the three connmgr server lists or the three m2a lists are all non-empty,
\* and the three connmgr client lists or the three zurl lists are all
\* non-empty, empty-string entries not counting.
OrigC13 ==
    cpc # "run" =>
        (~((AllSet(settings.server.connmgr) \/ AllSet(settings.server.other))
           /\ (AllSet(settings.client.connmgr) \/ AllSet(settings.client.other)))
         => Refused)

\* A connmgr list together with its condure alias.
EitherSet(side) ==
    \A i \in 1 .. 3 : HasEntry(side.connmgr[i]) \/ HasEntry(side.condure[i])

\* C13, amended: run returns 1 without creating any worker thread unless, on
\* the server side, each of connmgr_in_specs, connmgr_in_stream_specs and
\* connmgr_out_specs is non-empty itself or through its condure_* alias, or
\* the three m2a lists are all non-empty, and likewise on the client side
\* for the connmgr_client_* lists with their condure_client_* aliases or
\* the three zurl lists, empty-string entries not counting.
ClaimC13 ==
    cpc # "run" =>
        (~((EitherSet(settings.server) \/ AllSet(settings.server.other))
           /\ (EitherSet(settings.client) \/ AllSet(settings.client.other)))
         => Refused)

WitnessC13 ==
    /\ Refused
    /\ settings.server.connmgr = <<<<Empty>>, <<TcpA>>, <<TcpA>>>>
    /\ settings.server.condure = NoLists
    /\ ~AllSet(settings.server.other)

\* The --route values of the command line, in order.
RouteOpts == SelectSeq(args, LAMBDA o : o[1] = "route")

\* C14: if at least one --route line is given, the domain map is built only
\* from those lines, added in command-line order, and the routes file is
\* never loaded; if none is given it is built from the routes file.
ClaimC14 ==
    /\ cpc \in {"loop", "thread", "done"} => domainMap.ctor # "none"
    /\ domainMap.ctor # "none" =>
           IF RouteOpts # <<>>
           THEN /\ domainMap.ctor = "lines"
                /\ Len(domainMap.lines) = Len(RouteOpts)
                /\ \A i \in 1 .. Len(RouteOpts) :
                       domainMap.lines[i] = RouteOpts[i][2]
           ELSE domainMap = FileMap

WitnessC14 ==
    /\ cpc = "done"
    /\ args = <<<<"route", "r2">>, <<"route", "r1">>>>
    /\ domainMap.lines = <<"r2", "r1">>

\* t is a * b + c exactly, for 0 < b and 0 <= c < b * (a + 1).
IsProductPlus(t, a, b, c) ==
    /\ MulFits(a, b)
    /\ (t - c) % b = 0
    /\ (t - c) \div b = a

\* t is at least a * b, for 0 < b.
AtLeastProduct(t, a, b) ==
    IF t < 0 THEN a < 0 /\ a <= t \div b
    ELSE a <= t \div b

\* C15 as stated: each worker's timer budget is sessionsMax *
\* TIMERS_PER_SESSION + ZROUTES_MAX * TIMERS_PER_ZROUTE + 100, computed
\* without wrap-around for every sessionsMax the configuration admits, and
\* with the new event loop the registration budget is that plus the
\* socket-notifier budget, so never less than sessionsMax * TIMERS_PER_SESSION.
OrigC15 ==
    \A i \in 1 .. Len(budgets) :
        LET b == budgets[i]
        IN  /\ ~b.crash
            /\ IsProductPlus(b.timers, b.sessionsMax, TIMERS_PER_SESSION,
                             TimersFixed)
            /\ b.newLoop =>
                   /\ b.regs - SocketNotifiersMax = b.timers
                   /\ AtLeastProduct(b.regs, b.sessionsMax, TIMERS_PER_SESSION)

\* C16 as stated: a worker told to stop first lets the sessions in flight
\* drain until a grace deadline and only then terminates the remaining ones
\* and reports stopped: a worker that reports stopped with sessions in
\* flight was told to stop in an earlier turn of its loop.
OrigC16 ==
    [][\A w \in Workers :
          (w \notin stopped /\ w \in stopped' /\ inflight[w] > 0) =>
              lastRun[w].fn = "stop"]_vars

\* C17: the set of client ids a successful connCheck(cids) delivers is a
\* subset of the cids it was given, whatever reply arrives.
OrigC17 ==
    \A i \in ReqIds :
        (creq[i].kind = "connCheck" /\ Len(creq[i].fin) > 0
            /\ creq[i].fin[1].success) =>
                creq[i].fin[1].value.ids \subseteq creq[i].cids

\* C18: a control request destroyed before its reply arrives has released
\* its ZrpcRequest and its connection, and a reply arriving afterwards
\* neither runs a handler on it nor adds a finished notification.
ReleasedC18 ==
    /\ ~touched
    /\ \A i \in ReqIds :
           creq[i].st = "destroyed" => ~creq[i].req /\ ~creq[i].conn

ClaimC18 ==
    /\ []ReleasedC18
    /\ [][\A i \in ReqIds :
              creq[i].st = "destroyed" => creq'[i] = creq[i]]_vars

\* a request destroyed while pending whose reply has since arrived
WitnessC18 ==
    \E i \in ReqIds :
        /\ creq[i].st = "destroyed"
        /\ creq[i].fin = <<>>
        /\ i \notin wire

\* C19: a response of exactly MAX_RESPONSE_SIZE buffered bytes that finishes
\* with code 200 is parsed; a request is aborted as too large exactly when
\* more than MAX_RESPONSE_SIZE bytes are buffered, and then nothing is
\* parsed.
ClaimC19 ==
    /\ ubuf <= MAX_RESPONSE_SIZE
    /\ ulast.outcome # "none" =>
           /\ ulast.outcome = "toolarge" <=> ulast.size > MAX_RESPONSE_SIZE
           /\ ulast.outcome = "parsed" =>
                  /\ ulast.size <= MAX_RESPONSE_SIZE
                  /\ ulast.fin
                  /\ ulast.code = 200
           /\ (ulast.size = MAX_RESPONSE_SIZE /\ ulast.fin
                  /\ ulast.code = 200) => ulast.outcome = "parsed"

\* a check whose body of exactly MAX_RESPONSE_SIZE bytes was parsed
WitnessC19 ==
    /\ ulast.size = MAX_RESPONSE_SIZE
    /\ ulast.outcome = "parsed"

\* a check aborted with one byte more than MAX_RESPONSE_SIZE buffered
TooLargeByOne ==
    /\ ulast.size = MAX_RESPONSE_SIZE + 1
    /\ ulast.outcome = "toolarge"

\* A conncheck result ConnCheck accepts: a list of byte arrays.
WellFormed(result) ==
    /\ result.t = "list"
    /\ \A k \in 1 .. Len(result.items) : result.items[k].t = "bytes"

\* One RPC with the method of the request's class, and at most one finished
\* notification: none while pending, one once finished.
OneRpcOneFinish(r) ==
    /\ Len(r.rpcs) = 1
    /\ r.kind = "connCheck" => r.rpcs[1].method = "conncheck"
    /\ r.kind = "refresh" => r.rpcs[1].method = "refresh"
    /\ r.kind = "report" => r.rpcs[1].method = "report"
    /\ Len(r.fin) <= 1
    /\ r.st = "pending" => Len(r.fin) = 0
    /\ r.st = "finished" => Len(r.fin) = 1

\* Success exactly when the RPC succeeded and, for conncheck, its result is
\* well-formed.
SuccessIff(r) ==
    r.fin[1].success <=>
        (r.reply.ok /\ (r.kind = "connCheck" => WellFormed(r.reply.result)))

\* C20 as stated: every failure carries the RPC's error condition.
OrigC20 ==
    \A i \in ReqIds :
        creq[i].kind # "none" =>
            /\ OneRpcOneFinish(creq[i])
            /\ creq[i].st = "finished" =>
                   /\ SuccessIff(creq[i])
                   /\ ~creq[i].fin[1].success =>
                          creq[i].fin[1].value = CondValue(creq[i].reply.cond)

\* C20: each control request issues one RPC with the method of its class and
\* finishes once when its reply arrives, with success exactly when the RPC
\* succeeded and (conncheck) its result is well-formed. A failed RPC gives
\* failure carrying the error condition, as its text for refresh; a
\* malformed conncheck result gives failure carrying no value.
ClaimC20 ==
    \A i \in ReqIds :
        creq[i].kind # "none" =>
            /\ OneRpcOneFinish(creq[i])
            /\ creq[i].st = "finished" =>
                   /\ SuccessIff(creq[i])
                   /\ ~creq[i].fin[1].success =>
                          creq[i].fin[1].value =
                              IF creq[i].reply.ok THEN NoValue
                              ELSE IF creq[i].kind = "refresh"
                              THEN StringValue(creq[i].reply.cond)
                              ELSE CondValue(creq[i].reply.cond)

\* a conncheck whose RPC succeeded with a malformed result
WitnessC20 ==
    \E i \in ReqIds :
        /\ creq[i].kind = "connCheck"
        /\ creq[i].st = "finished"
        /\ creq[i].reply.ok
        /\ ~creq[i].fin[1].success

\* C21: a conncheck RPC that succeeds with a result that is not a list, or
\* with a list holding an element that is not a byte string, makes connCheck
\* finish with failure and no value, never with the set of the well-formed
\* elements that preceded the bad one.
ClaimC21 ==
    \A i \in ReqIds :
        (creq[i].kind = "connCheck" /\ creq[i].st = "finished"
            /\ creq[i].reply.ok /\ ~WellFormed(creq[i].reply.result)) =>
                /\ Len(creq[i].fin) = 1
                /\ creq[i].fin[1] = [success |-> FALSE, value |-> NoValue]

\* a conncheck finished on a list whose bad element follows a good one
WitnessC21 ==
    \E i \in ReqIds :
        /\ creq[i].kind = "connCheck"
        /\ creq[i].st = "finished"
        /\ creq[i].reply.ok
        /\ creq[i].reply.result.t = "list"
        /\ Len(creq[i].reply.result.items) = 2
        /\ creq[i].reply.result.items[1].t = "bytes"
        /\ creq[i].reply.result.items[2].t # "bytes"

\* C22: once stop has been posted to a started worker, its thread eventually
\* destroys its engine, emits stopped, leaves its loop and terminates; and
\* every join of ~EngineThread returns, that of a worker whose start failed
\* included.
OrigC22 ==
    /\ \A w \in Workers :
           (stopPosted[w] > 0) ~>
               (w \in stopped /\ engine[w] = "reset" /\ wpc[w] = "done")
    /\ \A w \in Workers :
           (spc \in {"stop.chk", "stop.def", "join"} /\ cur = w
               /\ ctx \in {"quitDel", "failNew", "failDel"}) ~>
                   (w \in joined)

\* C23: the start barrier loses no wake-up. The worker's wakeOne for its
\* start attempt happens only while start() is waiting on the condition and
\* is delivered to it, and a start() that has spawned its thread eventually
\* returns.
ClaimC23 ==
    /\ [][\A w \in Workers :
              (sig[w] = "none" /\ sig'[w] # "none") =>
                  (spc = "startWait" /\ n = w /\ woken'[w])]_vars
    /\ \A w \in Workers :
           (spc \in {"startSpawned", "startWait"} /\ n = w) ~>
               (startResult[w] # "none")

\* the wakeOne of a start attempt delivered to the waiting start()
WitnessC23 ==
    \E w \in Workers :
        /\ spc = "startWait"
        /\ n = w
        /\ sig[w] # "none"
        /\ woken[w]

\* C24: while the supervisor is between the test of `worker` and the defer
\* through it, in stop() or routesChanged(), the worker object exists: the
\* worker thread does not destroy it in between, and no defer goes through
\* a destroyed worker.
OrigC24 ==
    /\ spc \in {"stop.def", "rc.def"} => worker[cur] = "alive"
    /\ ~crashed

\* C25: whenever the endpoint validation passes, the server triple and the
\* client triple handed to the engine are complete: all six lists are
\* non-empty.
OrigC25 ==
    cpc \in {"startup", "loop", "thread", "done"} =>
        /\ config.serverInSpecs # <<>>
        /\ config.serverInStreamSpecs # <<>>
        /\ config.serverOutSpecs # <<>>
        /\ config.clientOutSpecs # <<>>
        /\ config.clientOutStreamSpecs # <<>>
        /\ config.clientInSpecs # <<>>

\* C26: every worker thread is given the one DomainMap the startup closure
\* constructed, and when runLoop releases it every worker thread that was
\* spawned has terminated and been joined.
ClaimC26 ==
    /\ \A w \in Workers : wpc[w] # "unborn" => wmap[w] = 1
    /\ mapReleased =>
           \A w \in Workers : wpc[w] # "unborn" =>
               (wpc[w] = "done" /\ w \in joined)

\* the map released on the start-failure path after a started worker and
\* the one that failed were joined
WitnessC26 ==
    /\ mapReleased
    /\ mainRet = 1
    /\ \E v, w \in Workers :
           /\ startResult[v] = "true" /\ v \in joined
           /\ startResult[w] = "false" /\ w \in joined

\* C27: the start loop gives the workers the ids 0, 1, ... in that order,
\* one each, workers of them when it ends; with workers > 1 worker n's
\* clientId is the global clientId followed by "-" and n, and no two workers
\* have the same clientId.
ClaimC27 ==
    /\ Len(wconfigs) <= settings.workers
    /\ cpc = "done" => Len(wconfigs) = settings.workers
    /\ \A i \in 1 .. Len(wconfigs) : wconfigs[i].id = i - 1
    /\ settings.workers > 1 =>
           \A i \in 1 .. Len(wconfigs) :
               /\ wconfigs[i].clientId = Dashed(config.clientId, i - 1)
               /\ \A j \in 1 .. Len(wconfigs) :
                      j # i => wconfigs[j].clientId # wconfigs[i].clientId

\* two workers configured, with different client ids
WitnessC27 ==
    /\ cpc = "done"
    /\ settings.workers = 2
    /\ Len(wconfigs) = 2
    /\ wconfigs[1].clientId # wconfigs[2].clientId

\* C28: with workers = 1 the worker's configuration is the global one with
\* id = 0: no suffix on its clientId nor on any endpoint spec.
ClaimC28 ==
    settings.workers = 1 =>
        \A i \in 1 .. Len(wconfigs) :
            /\ wconfigs[i] = [config EXCEPT !.id = 0]
            /\ wconfigs[i].clientId = config.clientId
            /\ \A f \in SingleFields \cup ListFields :
                   wconfigs[i][f] = config[f]

\* a single worker configured from a global configuration with IPC specs
WitnessC28 ==
    /\ cpc = "done"
    /\ settings.workers = 1
    /\ Len(wconfigs) = 1
    /\ StartsWith(config.inspectSpec, Ipc)
    /\ config.wsControlInitSpecs = <<IpcA>>

\* C29: a new request is started only by a timer expiry that finds no
\* request in flight; a timer expiry while one is in flight starts nothing,
\* replaces nothing and leaves nothing queued, and no other step starts a
\* request.
ClaimC29 ==
    [][/\ uchecks' # uchecks =>
              (ureq = "none" /\ ureq' = "active" /\ uticks' = uticks + 1
                  /\ uchecks' = uchecks + 1)
       /\ (uticks' # uticks /\ ureq = "active") =>
              UNCHANGED <<ureq, ubuf, uchunks, uchecks, ulast>>
       /\ (ureq = "none" /\ ureq' = "active") => uticks' = uticks + 1]_vars

\* a timer expired while a request was in flight, and the request is still
\* the only one started
WitnessC29 ==
    /\ ureq = "active"
    /\ uchecks = 1
    /\ uticks >= 2
    /\ ubuf > 0

RECURSIVE SumOf(_, _)
SumOf(l, f) == IF l = <<>> THEN 0 ELSE Head(l)[f] + SumOf(Tail(l), f)

\* The largest connectionsMax of the calls, and 0 if none is positive.
MaxOf(l) ==
    IF \E i \in 1 .. Len(l) : l[i].connectionsMax > 0
    THEN CHOOSE m \in {l[i].connectionsMax : i \in 1 .. Len(l)} :
             \A i \in 1 .. Len(l) : l[i].connectionsMax <= m
    ELSE 0

\* C30: in report mode the last request issued carries the sums of
\* connectionsMinutes, messagesReceived, messagesSent and ops, and the
\* maximum of connectionsMax floored at 0, of exactly the setReport calls
\* made between the request before it and itself; the accumulators hold
\* exactly the calls made since, so each call counts in one request only.
ClaimC30 ==
    umode = "report" =>
        /\ uchecks > 0 =>
               /\ uquery.cmax = NumStr(MaxOf(uqcalls))
               /\ uquery.cminutes = NumStr(SumOf(uqcalls, "connectionsMinutes"))
               /\ uquery.recv = NumStr(SumOf(uqcalls, "messagesReceived"))
               /\ uquery.sent = NumStr(SumOf(uqcalls, "messagesSent"))
               /\ uquery.ops = NumStr(SumOf(uqcalls, "ops"))
        /\ report.connectionsMinutes = SumOf(ucalls, "connectionsMinutes")
        /\ report.messagesReceived = SumOf(ucalls, "messagesReceived")
        /\ report.messagesSent = SumOf(ucalls, "messagesSent")
        /\ report.ops = SumOf(ucalls, "ops")
        /\ (IF report.connectionsMax > 0 THEN report.connectionsMax ELSE 0)
               = MaxOf(ucalls)

\* a second request, issued after the first one failed, built from two calls
\* made since the first, with a call made after it waiting for the next
WitnessC30 ==
    /\ umode = "report"
    /\ uchecks = 2
    /\ Len(uqcalls) = 2
    /\ uqcalls[1].connectionsMax = 3
    /\ Len(ucalls) = 1

\* C31: an update check that has ended, by a request error, a response too
\* large, a code other than 200, or a finished 200 response whose body is
\* or is not a JSON object, is no longer held: the request in flight, if
\* any, is a later one. The timer expiry that follows an ended check
\* starts a new request.
ClaimC31 ==
    /\ [](/\ ureq = "active" => ulast.check < uchecks
          /\ ulast.outcome # "none" =>
                 /\ ulast.check \in 1 .. uchecks
                 /\ ulast.outcome \in {"error", "toolarge", "badcode",
                                       "parsed"}
                 /\ ulast.outcome = "parsed" <=>
                        ulast.body \in {"finished", "badformat"}
          /\ (uchecks > 0 /\ ureq = "none") => ulast.check = uchecks)
    /\ [][(uticks' # uticks /\ ulast.outcome # "none"
              /\ ulast.check = uchecks) =>
             (ureq' = "active" /\ uchecks' = uchecks + 1 /\ ubuf' = 0)]_vars

\* a second request in flight after the first ended with a 200 response
\* whose body was not a JSON object
WitnessC31 ==
    /\ ureq = "active"
    /\ uchecks = 2
    /\ ulast.check = 1
    /\ ulast.outcome = "parsed"
    /\ ulast.body = "badformat"

\* The decimal form of an int.
IntStr(v) == IF v < 0 THEN <<"-">> \o NumStr(-v) ELSE NumStr(v)

\* The numbers the entries at hand may carry.
XffInts == {-1, 0, 1, 2, IntMax - 1, IntMax}

\* truncate:N with N an int, and its N.
IsTruncateN(e) == \E v \in XffInts : e = TruncateStr \o IntStr(v)
NOf(e) == CHOOSE v \in XffInts : e = TruncateStr \o IntStr(v)

\* A truncate: entry whose N is not an int.
IsBadTruncate(e) == StartsWith(e, TruncateStr) /\ ~IsTruncateN(e)

\* The entries before the first truncate: entry whose N is not an int.
Kept(l) ==
    IF \E k \in 1 .. Len(l) : IsBadTruncate(l[k])
    THEN SubSeq(l, 1, (CHOOSE k \in 1 .. Len(l) :
                          /\ IsBadTruncate(l[k])
                          /\ \A j \in 1 .. k - 1 : ~IsBadTruncate(l[j])) - 1)
    ELSE l

\* The rule the entries of l give when all of them count.
RuleOf(l) ==
    [append |-> \E k \in 1 .. Len(l) : l[k] = AppendStr,
     truncate |->
         IF \E k \in 1 .. Len(l) : IsTruncateN(l[k])
         THEN NOf(l[CHOOSE k \in 1 .. Len(l) :
                       /\ IsTruncateN(l[k])
                       /\ \A j \in k + 1 .. Len(l) : ~IsTruncateN(l[j])])
         ELSE XffRuleDefault.truncate]

\* l with its entries at i and i + 1 exchanged.
Swapped(l, i) == [l EXCEPT ![i] = l[i + 1], ![i + 1] = l[i]]

\* C32: parse_xffRule returns the rule of the entries before the first
\* truncate: entry whose N is not an int (all entries if there is none):
\* append is set when `append` is among them, truncate is the N of the last
\* truncate:N among them and stays as constructed without one, and other
\* entries change nothing. When every entry is `append` or truncate:N,
\* exchanging an `append` with a neighbouring truncate:N gives the same
\* rule.
ClaimC32 ==
    xdone =>
        /\ xout = RuleOf(Kept(xin))
        /\ (\A k \in 1 .. Len(xin) :
                xin[k] = AppendStr \/ IsTruncateN(xin[k])) =>
               \A i \in 1 .. Len(xin) - 1 :
                   (xin[i] = AppendStr) # (xin[i + 1] = AppendStr) =>
                       parse_xffRule(Swapped(xin, i)) = xout

\* truncate:2, then a truncate: entry without a number, then an append
\* that is not reached
WitnessC32 ==
    /\ xdone
    /\ xin = <<TruncateStr \o NumStr(2), TruncateStr \o <<"x">>, AppendStr>>
    /\ xout = [truncate |-> 2, append |-> FALSE]

====
